---- MODULE Spec2Model ----
(***************************************************************************)
(* A model of the mosaic engine of lego-mosaic-rs (src/src/lib.rs):        *)
(* Mosaic::from_image (quantization, sections, height slabs, the flood     *)
(* fill of build_chunks, slice_chunk) and Mosaic::reduce_bricks (the       *)
(* candidate list per unit brick, the exclusion filter and the greedy      *)
(* packer of Chunk::reduce_bricks).                                        *)
(*                                                                         *)
(* Coordinates are 0-based as in the source.  A Vec is a sequence, so the  *)
(* element the source calls v[i] is v[i + 1] here.  Loops of the source    *)
(* are recursive operators; a loop that may run a few hundred times is     *)
(* split in halves (first half, then second half, in order) so that the    *)
(* evaluation stays shallow: the first half is evaluated (Evaluated, a     *)
(* test that always succeeds, forces it) before the second half starts.    *)
(* The order of the iterations is kept.                                    *)
(***************************************************************************)
EXTENDS Integers, Sequences, FiniteSets, TLC

VARIABLES
    image,       \* the Image: [length, width, pixels], pixels[<<l, w>>] a raw color
    palette,     \* the Palette: the sequence of colors it was built from
    heights,     \* the caller's height_fn as a table: heights[<<l, w>>]
    brickKind,   \* which brick selector the caller passes as brick_fn
    usizeMax,    \* usize::MAX of the target the program is built for
    pc,          \* "start" before from_image, "built" after Ok, "failed" after Err
    result,      \* the Result of the last call: "none", "Ok" or "PointerTooSmall"
    mosaic,      \* the current Mosaic
    prev,        \* the Mosaic the last reduce_bricks call consumed
    catalog,     \* the bricks argument of the last reduce_bricks call
    exclusions,  \* the exclusions argument of the last reduce_bricks call
    nReduce,     \* the number of reduce_bricks calls made so far
    calls,       \* the calls from_image made to image.pixel, palette.nearest,
                 \* height_fn and brick_fn, each a sequence of arguments
    yielded,     \* what mosaic.iter() has yielded: n, the number of times the
                 \* caller iterated (2 stands for more), and the sequences of
                 \* the first and of the last time
    regions      \* the regions the flood fill of from_image explored, in order:
                 \* the offsets l, w, h of the section and slab, coords (the
                 \* coords_in_chunk handed to slice_chunk), the bounds handed
                 \* with it and slices (what slice_chunk returned)
VARIABLES
    baseArgs,    \* the arguments of the Base::new call
    base,        \* what Base::new returned: status is "none" before the call,
                 \* "Ok", the BaseError variant, or "Aborted" when the call
                 \* does not return (a panic or a recursion without end)
    baseYielded  \* what base.iter() has yielded: n, the number of times the
                 \* caller iterated (1 stands for more), and the sequence

baseVars == <<baseArgs, base, baseYielded>>

VARIABLES
    packIn,      \* the chunk and the sizes of a Chunk::reduce_bricks call made
                 \* on its own, <<>> when there is none
    packOut      \* what the call left: the bricks, the sums of two u8 it
                 \* computed, and whether a pass of its loop placed nothing

packVars == <<packIn, packOut>>

vars == <<image, palette, heights, brickKind, usizeMax, pc, result, mosaic,
          prev, catalog, exclusions, nReduce, calls, yielded, regions, baseVars,
          packVars>>

\* TRUE, once v has been evaluated
Evaluated(v) == v = v

Min(a, b) == IF a < b THEN a ELSE b
Max(a, b) == IF a > b THEN a ELSE b

(***************************************************************************)
(* Program constants.                                                      *)
(***************************************************************************)
U8Max == 255
U16Max == 65535
I32Max == 2147483647
DefaultColor == 0
UNIT_BRICK == 0
UNIT_BRICK_2 == 1
UNIT_BRICK_3 == 2

\* `x as u8`
AsU8(x) == x % (U8Max + 1)

(***************************************************************************)
(* Bounds of the model.                                                    *)
(***************************************************************************)
MaxCells == 4      \* small images have at most this many pixels
MaxSide == 3       \* and are at most this long and this wide
MaxHeight == 2     \* small images have columns of at most this height
MaxReduce == 2     \* at most this many reduce_bricks calls in a row
MaxReduceCells == 3  \* the images reduce_bricks is tried on have at most this many pixels
Over == 1          \* large images exceed the section size by at most this
MaxBase == 9       \* the bases are at most this long and this wide

(***************************************************************************)
(* A set as the sequence a BTreeSet iterates, ascending: a set of numbers  *)
(* between lo and hi, and a set of pairs (l, w), compared                  *)
(* lexicographically, inside the box [min_l, max_l] x [min_w, max_w].      *)
(***************************************************************************)
AscendingInts(S, lo, hi) ==
    SelectSeq([k \in 1..(hi - lo + 1) |-> lo + k - 1], LAMBDA x : x \in S)

Ascending(S, min_l, max_l, min_w, max_w) ==
    LET wn == max_w - min_w + 1
    IN SelectSeq([k \in 1..((max_l - min_l + 1) * wn) |->
                     <<min_l + ((k - 1) \div wn), min_w + ((k - 1) % wn)>>],
                 LAMBDA c : c \in S)

(***************************************************************************)
(* Bricks.  A Brick is Unit(u) or NonUnit(b); b is a TestBrick, the        *)
(* NonUnitBrick implementation of the repository's tests.                  *)
(***************************************************************************)
\* Brick::Unit that stores the first unit brick, whatever it is given
Unit_first(u) == [kind |-> "Unit", unit |-> UNIT_BRICK]

Unit(u) == [kind |-> "Unit", unit |-> u]
NonUnit(b) == [kind |-> "NonUnit", b |-> b]

TestBrick(id, length, width, height, unit_brick) ==
    [id |-> id, rotation_count |-> 0, length |-> length, width |-> width,
     height |-> height, unit_brick |-> unit_brick]

rotate_90(b) ==
    [id |-> b.id, rotation_count |-> (b.rotation_count + 1) % 4,
     length |-> b.width, width |-> b.length, height |-> b.height,
     unit_brick |-> b.unit_brick]

is_rotation_of(a, b) == a.id = b.id /\ a.unit_brick = b.unit_brick

BrickLength(brick) == IF brick.kind = "Unit" THEN 1 ELSE brick.b.length
BrickWidth(brick) == IF brick.kind = "Unit" THEN 1 ELSE brick.b.width
BrickHeight(brick) == IF brick.kind = "Unit" THEN 1 ELSE brick.b.height
BrickUnitBrick(brick) == IF brick.kind = "Unit" THEN brick.unit ELSE brick.b.unit_brick

\* VolumeSortedBrick::volume
volume(brick) == BrickLength(brick) * BrickWidth(brick) * BrickHeight(brick)

(***************************************************************************)
(* Palette and quantization.  A color is a number, its raw color is the    *)
(* same number; nearest is the palette color at the least distance.        *)
(* None is <<>> and Some(c) is <<c>>.                                      *)
(***************************************************************************)
nearest(pal, raw) ==
    IF pal = <<>> THEN <<>>
    ELSE LET d(i) == (pal[i] - raw) * (pal[i] - raw)
             best == CHOOSE i \in 1..Len(pal) :
                        \A j \in 1..Len(pal) : d(i) < d(j) \/ (d(i) = d(j) /\ i <= j)
         IN <<pal[best]>>

unwrap_or_default(opt) == IF opt = <<>> THEN DefaultColor ELSE opt[1]

\* Pixels::with_palette over the pixels of the image
\* with_palette that keeps the raw color
with_palette_raw(pixels, pal) == pixels

with_palette(pixels, pal) ==
    [p \in DOMAIN pixels |-> unwrap_or_default(nearest(pal, pixels[p]))]

(***************************************************************************)
(* The brick selectors a caller may pass as brick_fn(l, w, h, color).      *)
(***************************************************************************)
\* UnitBrick is implemented for every Copy + Eq + Ord type, so the value a
\* brick selector returns may be one that stands for a larger part: this one
\* stands for a 2x1x1 shape
TwoByOneShape == UNIT_BRICK_3 + 1

IsUnitShape(u) == u # TwoByOneShape

BrickKinds == {"const", "byW", "byH", "byColor", "shape"}

brick_fn(kind, l, w, h, color) ==
    CASE kind = "const" -> UNIT_BRICK
      [] kind = "byW" -> IF w % 2 = 0 THEN UNIT_BRICK_2 ELSE UNIT_BRICK
      [] kind = "byH" -> IF h % 2 = 0 THEN UNIT_BRICK ELSE UNIT_BRICK_2
      [] kind = "byColor" -> IF color = 1 THEN UNIT_BRICK ELSE UNIT_BRICK_2
      [] kind = "shape" -> TwoByOneShape

(***************************************************************************)
(* Mosaic::make_sections                                                   *)
(***************************************************************************)
RECURSIVE make_sections_w(_, _, _, _, _)
make_sections_w(section_l, section_length, section_w, image_width, section_size) ==
    IF section_w < image_width
    THEN LET section_width == Min(section_size, image_width - section_w)
         IN <<[section_l |-> section_l, section_w |-> section_w,
               section_length |-> AsU8(section_length),
               section_width |-> AsU8(section_width)]>>
            \o make_sections_w(section_l, section_length, section_w + section_width,
                               image_width, section_size)
    ELSE <<>>

RECURSIVE make_sections_l(_, _, _, _)
make_sections_l(section_l, image_length, image_width, section_size) ==
    IF section_l < image_length
    THEN LET section_length == Min(section_size, image_length - section_l)
         IN make_sections_w(section_l, section_length, 0, image_width, section_size)
            \o make_sections_l(section_l + section_length, image_length, image_width,
                               section_size)
    ELSE <<>>

make_sections(img, section_size) ==
    make_sections_l(0, img.length, img.width, section_size)

(***************************************************************************)
(* The closures from_image hands to build_chunks.  env holds what they     *)
(* capture: the quantized colors, the height map, the caller's brick       *)
(* selector, the offsets of the section and of the slab, and the           *)
(* arguments length, width and max_height of build_chunks.                 *)
(***************************************************************************)
\* the height closure that forgets the slabs below
HeightAt_whole(env, l, w) ==
    AsU8(Min(U8Max, env.heights[<<l + env.section_l, w + env.section_w>>]))

HeightAt(env, l, w) ==
    LET height == env.heights[<<l + env.section_l, w + env.section_w>>]
    IN IF height > env.section_h
       THEN AsU8(Min(U8Max, height - env.section_h))
       ELSE 0

ColorAt(env, l, w) == env.colors[<<l + env.section_l, w + env.section_w>>]

\* the closure without the cache: brick_fn is asked every time
CachedBrick_always(env, cache, l, w, h, color) ==
    LET Inserted(b) ==
            [cache |-> [entries |-> (<<l, w, h>> :> b) @@ cache.entries,
                        calls |-> Append(cache.calls,
                                         <<l + env.section_l, w + env.section_w,
                                           h + env.section_h, color>>)],
             brick |-> b]
    IN Inserted(brick_fn(env.kind, l + env.section_l, w + env.section_w,
                         h + env.section_h, color))

\* brick_cache.entry((l, w, h)).or_insert_with(|| brick_fn(...)): the cache
\* after the call and the value the call returns.  cache is what the closure
\* captures: entries, the brick_cache of the slab, and calls, the global
\* (l, w, h) and the color brick_fn was called with, in order
CachedBrick(env, cache, l, w, h, color) ==
    IF <<l, w, h>> \in DOMAIN cache.entries
    THEN [cache |-> cache, brick |-> cache.entries[<<l, w, h>>]]
    ELSE LET Inserted(b) ==
                 [cache |-> [entries |-> (<<l, w, h>> :> b) @@ cache.entries,
                             calls |-> Append(cache.calls,
                                              <<l + env.section_l, w + env.section_w,
                                                h + env.section_h, color>>)],
                  brick |-> b]
         IN Inserted(brick_fn(env.kind, l + env.section_l, w + env.section_w,
                              h + env.section_h, color))

\* visited_index without the layer: one flag per column
visited_index_column(l, w, h, length, width) == w * length + l

visited_index(l, w, h, length, width) == h * length * width + w * length + l

\* visited is the set of the indices of the BoolVec that hold true
was_visited(visited, l, w, h, length, width) ==
    visited_index(l, w, h, length, width) \in visited

\* is_new_pos without the test of the color
is_new_pos_any_color(env, fs, l, w, h) ==
    IF was_visited(fs.visited, l, w, h, env.length, env.width)
    THEN [cache |-> fs.cache, new |-> FALSE]
    ELSE LET Same(r) == [cache |-> r.cache, new |-> r.brick = fs.start_brick]
         IN Same(CachedBrick(env, fs.cache, l, w, h, fs.start_color))

\* is_new_pos, and what the call leaves in the cache: the brick selector is
\* asked (with the color of the region's start) only for an unvisited position
is_new_pos(env, fs, l, w, h) ==
    IF was_visited(fs.visited, l, w, h, env.length, env.width)
    THEN [cache |-> fs.cache, new |-> FALSE]
    ELSE LET Same(r) ==
                 [cache |-> r.cache,
                  new |-> r.brick = fs.start_brick /\ ColorAt(env, l, w) = fs.start_color]
         IN Same(CachedBrick(env, fs.cache, l, w, h, fs.start_color))

\* the access to the BoolVec at visited_index(l, w, h, ..), when it is out
\* of the range length * width * max_height of the slab
IndexFault(env, l, w, h) ==
    IF /\ 0 <= l /\ l < env.length /\ 0 <= w /\ w < env.width
       /\ 0 <= h /\ h < env.max_height
       /\ visited_index(l, w, h, env.length, env.width)
             < env.length * env.width * env.max_height
    THEN {}
    ELSE {<<"index", l, w, h>>}

\* the u8 subtraction operand - 1, when it underflows
UnderflowFault(expression, operand) ==
    IF operand >= 1 THEN {} ELSE {<<"underflow", expression>>}

\* one neighbour test of the flood fill: `if <bounds> && is_new_pos(..) { push_back }`
Explore(env, fs, inBounds, l, w, h) ==
    IF ~inBounds THEN fs
    ELSE LET PushBack(r) ==
                 [fs EXCEPT !.cache = r.cache,
                            !.coords_to_visit = IF r.new THEN Append(@, <<l, w, h>>) ELSE @,
                            !.faults = @ \cup IndexFault(env, l, w, h)]
         IN PushBack(is_new_pos(env, fs, l, w, h))

\* the pass that looks above a column's topmost voxel as well
FillStep_above_top(env, fs) ==
    LET p == Head(fs.coords_to_visit)
        l == p[1]
        w == p[2]
        h == p[3]
        height == HeightAt(env, l, w)
        popped == [fs EXCEPT !.coords_to_visit = Tail(@),
                             !.faults = @ \cup IndexFault(env, l, w, h)]
    IN IF was_visited(fs.visited, l, w, h, env.length, env.width)
       THEN popped
       ELSE LET s0 == [popped EXCEPT
                         !.visited = @ \cup {visited_index(l, w, h, env.length, env.width)},
                         !.coords_in_chunk = @ \cup {<<l, w, h>>},
                         !.min_l = Min(@, l), !.min_w = Min(@, w),
                         !.max_l = Max(@, l), !.max_w = Max(@, w),
                         !.min_h = Min(@, h),
                         !.faults = @ \cup UnderflowFault("length - 1", env.length)
                                      \cup UnderflowFault("width - 1", env.width)
                                      \cup UnderflowFault("height - 1", height)]
                s1 == Explore(env, s0, l > 0 /\ HeightAt(env, l - 1, w) > h, l - 1, w, h)
                s2 == Explore(env, s1, l < env.length - 1 /\ HeightAt(env, l + 1, w) > h,
                              l + 1, w, h)
                s3 == Explore(env, s2, w > 0 /\ HeightAt(env, l, w - 1) > h, l, w - 1, h)
                s4 == Explore(env, s3, w < env.width - 1 /\ HeightAt(env, l, w + 1) > h,
                              l, w + 1, h)
                s5 == Explore(env, s4, h > 0, l, w, h - 1)
                s6 == Explore(env, s5, h < height, l, w, h + 1)
            IN s6

\* one pass of `while !coords_to_visit.is_empty()` in build_chunks
FillStep(env, fs) ==
    LET p == Head(fs.coords_to_visit)
        l == p[1]
        w == p[2]
        h == p[3]
        height == HeightAt(env, l, w)
        popped == [fs EXCEPT !.coords_to_visit = Tail(@),
                             !.faults = @ \cup IndexFault(env, l, w, h)]
    IN IF was_visited(fs.visited, l, w, h, env.length, env.width)
       THEN popped
       ELSE LET s0 == [popped EXCEPT
                         !.visited = @ \cup {visited_index(l, w, h, env.length, env.width)},
                         !.coords_in_chunk = @ \cup {<<l, w, h>>},
                         !.min_l = Min(@, l), !.min_w = Min(@, w),
                         !.max_l = Max(@, l), !.max_w = Max(@, w),
                         !.min_h = Min(@, h),
                         !.faults = @ \cup UnderflowFault("length - 1", env.length)
                                      \cup UnderflowFault("width - 1", env.width)
                                      \cup UnderflowFault("height - 1", height)]
                s1 == Explore(env, s0, l > 0 /\ HeightAt(env, l - 1, w) > h, l - 1, w, h)
                s2 == Explore(env, s1, l < env.length - 1 /\ HeightAt(env, l + 1, w) > h,
                              l + 1, w, h)
                s3 == Explore(env, s2, w > 0 /\ HeightAt(env, l, w - 1) > h, l, w - 1, h)
                s4 == Explore(env, s3, w < env.width - 1 /\ HeightAt(env, l, w + 1) > h,
                              l, w + 1, h)
                s5 == Explore(env, s4, h > 0, l, w, h - 1)
                s6 == Explore(env, s5, h < height - 1, l, w, h + 1)
            IN s6

\* at most n passes of the while loop
RECURSIVE FillSteps(_, _, _)
FillSteps(env, fs, n) ==
    IF n = 0 \/ fs.coords_to_visit = <<>> THEN fs
    ELSE IF n = 1 THEN FillStep(env, fs)
    ELSE LET half == FillSteps(env, fs, n \div 2)
         IN IF half.coords_to_visit = <<>> THEN half
            ELSE FillSteps(env, half, n - n \div 2)

\* the while loop, run to its end
RECURSIVE Fill(_, _)
Fill(env, fs) ==
    IF fs.coords_to_visit = <<>> THEN fs
    ELSE Fill(env, FillSteps(env, fs, 64))

(***************************************************************************)
(* Mosaic::slice_chunk.  coords_in_chunk, a BTreeMap from h to a BTreeSet  *)
(* of (l, w), is the set of the triples <<l, w, h>> it holds.              *)
(***************************************************************************)
CoordsAt(coords_in_chunk, h) ==
    {<<c[1], c[2]>> : c \in {x \in coords_in_chunk : x[3] = h}}

\* the loop that never finds the columns to differ: one slice for the region
SliceHeights_merged(coords_in_chunk, keys, st, lo, hi) ==
    IF lo > hi THEN st
    ELSE [heights |-> st.heights,
          height |-> st.height + (hi - lo + 1),
          last_coords |-> CoordsAt(coords_in_chunk, keys[hi])]

\* the loop comparing the number of columns, not the columns
RECURSIVE SliceHeights_by_count(_, _, _, _, _)
SliceHeights_by_count(coords_in_chunk, keys, st, lo, hi) ==
    IF lo > hi THEN st
    ELSE IF lo = hi
    THEN LET coords == CoordsAt(coords_in_chunk, keys[lo])
             differs == Cardinality(st.last_coords) # Cardinality(coords)
         IN [heights |-> IF differs THEN Append(st.heights, st.height) ELSE st.heights,
             height |-> (IF differs THEN 0 ELSE st.height) + 1,
             last_coords |-> coords]
    ELSE LET mid == (lo + hi) \div 2
             half == SliceHeights_by_count(coords_in_chunk, keys, st, lo, mid)
         IN IF Evaluated(half)
            THEN SliceHeights_by_count(coords_in_chunk, keys, half, mid + 1, hi)
            ELSE half

\* the loop that collects `heights`, over the keys keys[lo..hi] in order
RECURSIVE SliceHeights(_, _, _, _, _)
SliceHeights(coords_in_chunk, keys, st, lo, hi) ==
    IF lo > hi THEN st
    ELSE IF lo = hi
    THEN LET coords == CoordsAt(coords_in_chunk, keys[lo])
             differs == st.last_coords # coords
         IN [heights |-> IF differs THEN Append(st.heights, st.height) ELSE st.heights,
             height |-> (IF differs THEN 0 ELSE st.height) + 1,
             last_coords |-> coords]
    ELSE LET mid == (lo + hi) \div 2
             half == SliceHeights(coords_in_chunk, keys, st, lo, mid)
         IN IF Evaluated(half)
            THEN SliceHeights(coords_in_chunk, keys, half, mid + 1, hi)
            ELSE half

\* the body of `for height in heights`: the Chunk of one slice
\* a slice with the bounding box of its own columns
SliceOf_tight(coords_in_chunk, unit_brick, color, min_l, min_w, chunk_length, chunk_width, slice_h, height) ==
    LET cs == CoordsAt(coords_in_chunk, slice_h)
        lo_l == CHOOSE x \in {c[1] : c \in cs} : \A c \in cs : x <= c[1]
        hi_l == CHOOSE x \in {c[1] : c \in cs} : \A c \in cs : c[1] <= x
        lo_w == CHOOSE x \in {c[2] : c \in cs} : \A c \in cs : x <= c[2]
        hi_w == CHOOSE x \in {c[2] : c \in cs} : \A c \in cs : c[2] <= x
        coords_in_slice == Ascending(cs, lo_l, hi_l, lo_w, hi_w)
        n == Len(coords_in_slice)
    IN [unit_brick |-> unit_brick,
        color |-> color,
        l |-> lo_l,
        w |-> lo_w,
        h |-> slice_h,
        length |-> hi_l - lo_l + 1,
        width |-> hi_w - lo_w + 1,
        height |-> height,
        ws_included |->
            [i \in 1..(hi_l - lo_l + 1) |->
                {coords_in_slice[k][2] - lo_w :
                    k \in {j \in 1..n : coords_in_slice[j][1] - lo_l = i - 1}}],
        bricks |->
            [k \in 1..(n * height) |->
                [l |-> coords_in_slice[(k - 1) \div height + 1][1] - lo_l,
                 w |-> coords_in_slice[(k - 1) \div height + 1][2] - lo_w,
                 h |-> (k - 1) % height,
                 brick |-> Unit(unit_brick)]]]

SliceOf(coords_in_chunk, unit_brick, color, min_l, min_w, chunk_length, chunk_width, slice_h, height) ==
    LET coords_in_slice == Ascending(CoordsAt(coords_in_chunk, slice_h), min_l,
                                     min_l + chunk_length - 1, min_w,
                                     min_w + chunk_width - 1)
        n == Len(coords_in_slice)
    IN [unit_brick |-> unit_brick,
        color |-> color,
        l |-> min_l,
        w |-> min_w,
        h |-> slice_h,
        length |-> chunk_length,
        width |-> chunk_width,
        height |-> height,
        ws_included |->
            [i \in 1..chunk_length |->
                {coords_in_slice[k][2] - min_w :
                    k \in {j \in 1..n : coords_in_slice[j][1] - min_l = i - 1}}],
        bricks |->
            [k \in 1..(n * height) |->
                [l |-> coords_in_slice[(k - 1) \div height + 1][1] - min_l,
                 w |-> coords_in_slice[(k - 1) \div height + 1][2] - min_w,
                 h |-> (k - 1) % height,
                 brick |-> Unit(unit_brick)]]]

\* `for height in heights`, over heights[lo..hi] in order; st carries slice_h
\* and the slices pushed so far
RECURSIVE Slices(_, _, _, _, _, _, _, _, _, _, _)
Slices(coords_in_chunk, unit_brick, color, min_l, min_w, chunk_length, chunk_width, heights_, st, lo, hi) ==
    IF lo > hi THEN st
    ELSE IF lo = hi
    THEN [slice_h |-> st.slice_h + heights_[lo],
          slices |-> Append(st.slices,
                            SliceOf(coords_in_chunk, unit_brick, color, min_l, min_w,
                                    chunk_length, chunk_width, st.slice_h, heights_[lo]))]
    ELSE LET mid == (lo + hi) \div 2
             half == Slices(coords_in_chunk, unit_brick, color, min_l, min_w,
                            chunk_length, chunk_width, heights_, st, lo, mid)
         IN IF Evaluated(half)
            THEN Slices(coords_in_chunk, unit_brick, color, min_l, min_w, chunk_length,
                        chunk_width, heights_, half, mid + 1, hi)
            ELSE half

slice_chunk(coords_in_chunk, unit_brick, color, min_l, max_l, min_w, max_w, min_h) ==
    IF coords_in_chunk = {} THEN <<>>
    ELSE LET chunk_length == max_l - min_l + 1
             chunk_width == max_w - min_w + 1
             \* `for height in heights`
             Sliced(heights_) ==
                 Slices(coords_in_chunk, unit_brick, color, min_l, min_w, chunk_length,
                        chunk_width, heights_, [slice_h |-> min_h, slices |-> <<>>],
                        1, Len(heights_)).slices
             \* `if height > 0 { heights.push(height) }`
             Pushed(run) ==
                 Sliced(IF run.height > 0 THEN Append(run.heights, run.height)
                        ELSE run.heights)
             \* `for (_, coords) in coords_in_chunk.iter()`
             Collected(keys) ==
                 Pushed(SliceHeights(coords_in_chunk, keys,
                                     [heights |-> <<>>, height |-> 0,
                                      last_coords |-> CoordsAt(coords_in_chunk, keys[1])],
                                     1, Len(keys)))
             Keys(hs) == AscendingInts(hs, min_h, CHOOSE m \in hs : \A x \in hs : x <= m)
         IN Collected(Keys({c[3] : c \in coords_in_chunk}))

(***************************************************************************)
(* Mosaic::build_chunks.  bs is what the scan carries from one start       *)
(* position to the next: the visited bits, the brick cache of the slab     *)
(* and the chunks found so far.                                            *)
(***************************************************************************)
\* the body of `for start_h in 0..start_height`
StartAt(env, bs, start_l, start_w, start_h) ==
    IF was_visited(bs.visited, start_l, start_w, start_h, env.length, env.width)
    THEN bs
    ELSE LET start_color == ColorAt(env, start_l, start_w)
             \* `chunks.extend(Mosaic::slice_chunk(..))` after the flood fill
             Appended(fs, slices) ==
                 [visited |-> fs.visited,
                  cache |-> fs.cache,
                  chunks |-> bs.chunks \o slices,
                  regions |-> Append(bs.regions,
                                     [l |-> env.section_l, w |-> env.section_w,
                                      h |-> env.section_h,
                                      coords |-> fs.coords_in_chunk,
                                      min_l |-> fs.min_l, max_l |-> fs.max_l,
                                      min_w |-> fs.min_w, max_w |-> fs.max_w,
                                      min_h |-> fs.min_h,
                                      slices |-> slices,
                                      faults |-> fs.faults])]
             Extended(fs) ==
                 Appended(fs, slice_chunk(fs.coords_in_chunk, fs.start_brick,
                                          fs.start_color, fs.min_l, fs.max_l,
                                          fs.min_w, fs.max_w, fs.min_h))
             \* the flood fill from the start position, r its brick
             Filled(r) ==
                 Extended(Fill(env, [visited |-> bs.visited,
                                     cache |-> r.cache,
                                     coords_to_visit |-> <<<<start_l, start_w, start_h>>>>,
                                     coords_in_chunk |-> {},
                                     start_brick |-> r.brick,
                                     start_color |-> start_color,
                                     min_l |-> start_l, min_w |-> start_w,
                                     max_l |-> start_l, max_w |-> start_w,
                                     min_h |-> start_h,
                                     faults |-> IndexFault(env, start_l, start_w,
                                                           start_h)]))
         IN Filled(CachedBrick(env, bs.cache, start_l, start_w, start_h, start_color))

\* `for start_h in lo..=hi` at one column
RECURSIVE ScanColumn(_, _, _, _, _, _)
ScanColumn(env, bs, start_l, start_w, lo, hi) ==
    IF lo > hi THEN bs
    ELSE IF lo = hi THEN StartAt(env, bs, start_l, start_w, lo)
    ELSE LET mid == (lo + hi) \div 2
             half == ScanColumn(env, bs, start_l, start_w, lo, mid)
         IN IF Evaluated(half)
            THEN ScanColumn(env, half, start_l, start_w, mid + 1, hi)
            ELSE half

\* `for start_w in 0..width { for start_l in 0..length {..} }`, the columns
\* numbered start_w * length + start_l, from column lo to column hi
RECURSIVE ScanColumns(_, _, _, _)
ScanColumns(env, bs, lo, hi) ==
    IF lo > hi THEN bs
    ELSE IF lo = hi
    THEN LET start_w == lo \div env.length
             start_l == lo % env.length
         IN ScanColumn(env, bs, start_l, start_w, 0, HeightAt(env, start_l, start_w) - 1)
    ELSE LET mid == (lo + hi) \div 2
             half == ScanColumns(env, bs, lo, mid)
         IN IF Evaluated(half)
            THEN ScanColumns(env, half, mid + 1, hi)
            ELSE half

\* Err(PointerTooSmall) is [ok |-> FALSE]
build_chunks(env) ==
    IF env.max_height > 0
       /\ ((env.usize_max \div env.length) \div env.width) \div env.max_height = 0
    THEN [ok |-> FALSE, chunks |-> <<>>, cache |-> [entries |-> <<>>, calls |-> <<>>],
          regions |-> <<>>]
    ELSE LET Scanned(bs) == [ok |-> TRUE, chunks |-> bs.chunks, cache |-> bs.cache,
                             regions |-> bs.regions]
         IN Scanned(ScanColumns(env, [visited |-> {},
                                      cache |-> [entries |-> <<>>, calls |-> <<>>],
                                      chunks |-> <<>>,
                                      regions |-> <<>>],
                                0, env.width * env.length - 1))

(***************************************************************************)
(* Mosaic::new and Mosaic::from_image.  A Section is the record            *)
(* [l, w, h, chunks] of the tuple (section_l, section_w, section_h,        *)
(* chunks).                                                                *)
(***************************************************************************)
new(sections, length, width) ==
    [sections |-> SelectSeq(sections,
                     LAMBDA s : \A i \in 1..Len(s.chunks) :
                                   s.chunks[i].length > 0 /\ s.chunks[i].width > 0
                                   /\ s.chunks[i].height > 0),
     length |-> length,
     width |-> width]

\* a maximum that is never below 1
MaxHeightOf_floor(hts, section) ==
    LET S == {hts[<<l + section.section_l, w + section.section_w>>] :
                 l \in 0..(section.section_length - 1),
                 w \in 0..(section.section_width - 1)} \cup {1}
    IN CHOOSE m \in S : \A x \in S : x <= m

\* height_map.max().map_or(0, ..) over the pixels of one section
MaxHeightOf(hts, section) ==
    LET S == {hts[<<l + section.section_l, w + section.section_w>>] :
                 l \in 0..(section.section_length - 1),
                 w \in 0..(section.section_width - 1)}
    IN IF S = {} THEN 0 ELSE CHOOSE m \in S : \A x \in S : x <= m

\* `while section_h < max_height` for one section: Ok(sections pushed) or Err
RECURSIVE Slabs(_, _, _, _, _, _, _)
Slabs(colors, hts, kind, usize_max, section, max_height, section_h) ==
    IF section_h < max_height
    THEN LET section_height == Min(U8Max, max_height - section_h)
             \* `sections.push((section_l, section_w, section_h, chunks))`, then
             \* the slabs above
             Stacked(r, rest) ==
                 IF ~rest.ok THEN [rest EXCEPT !.brick_calls = r.cache.calls \o @,
                                               !.regions = r.regions \o @]
                 ELSE [ok |-> TRUE,
                       sections |-> <<[l |-> section.section_l,
                                       w |-> section.section_w,
                                       h |-> section_h,
                                       chunks |-> r.chunks]>> \o rest.sections,
                       brick_calls |-> r.cache.calls \o rest.brick_calls,
                       regions |-> r.regions \o rest.regions]
             \* `Mosaic::<U>::build_chunks(..)?`
             Built(r) ==
                 IF ~r.ok THEN [ok |-> FALSE, sections |-> <<>>, brick_calls |-> <<>>,
                                regions |-> <<>>]
                 ELSE Stacked(r, Slabs(colors, hts, kind, usize_max, section, max_height,
                                      section_h + section_height))
         IN Built(build_chunks([colors |-> colors, heights |-> hts, kind |-> kind,
                                usize_max |-> usize_max,
                                section_l |-> section.section_l,
                                section_w |-> section.section_w,
                                section_h |-> section_h,
                                length |-> section.section_length,
                                width |-> section.section_width,
                                max_height |-> AsU8(section_height)]))
    ELSE [ok |-> TRUE, sections |-> <<>>, brick_calls |-> <<>>, regions |-> <<>>]

\* the global (l, w) that Pixels::from_fn passes to its closure for one
\* section, in the order of the calls
from_fn(section) ==
    [k \in 1..(section.section_length * section.section_width) |->
        <<((k - 1) % section.section_length) + section.section_l,
          ((k - 1) \div section.section_length) + section.section_w>>]

\* `for (section_l, section_w, section_length, section_width) in section_images`
RECURSIVE Sections(_, _, _, _, _)
Sections(colors, hts, kind, usize_max, section_images) ==
    IF section_images = <<>>
    THEN [ok |-> TRUE, sections |-> <<>>, pixel_calls |-> <<>>, nearest_calls |-> <<>>,
          height_calls |-> <<>>, brick_calls |-> <<>>, regions |-> <<>>]
    ELSE LET Joined(first, rest) ==
                 [ok |-> rest.ok,
                  sections |-> IF rest.ok THEN first.sections \o rest.sections ELSE <<>>,
                  pixel_calls |-> first.pixel_calls \o rest.pixel_calls,
                  nearest_calls |-> first.nearest_calls \o rest.nearest_calls,
                  height_calls |-> first.height_calls \o rest.height_calls,
                  brick_calls |-> first.brick_calls \o rest.brick_calls,
                  regions |-> first.regions \o rest.regions]
             Then(first) ==
                 IF ~first.ok THEN first
                 ELSE Joined(first,
                             Sections(colors, hts, kind, usize_max, Tail(section_images)))
             \* raw_colors, colors and height_map are built first (one
             \* image.pixel, one palette.nearest and one height_fn call for
             \* each value), then the slabs
             Read(section, slabs) ==
                 Then([ok |-> slabs.ok,
                       sections |-> slabs.sections,
                       pixel_calls |-> from_fn(section),
                       nearest_calls |-> from_fn(section),
                       height_calls |-> from_fn(section),
                       brick_calls |-> slabs.brick_calls,
                       regions |-> slabs.regions])
             OfSection(section) ==
                 Read(section, Slabs(colors, hts, kind, usize_max, section,
                                     MaxHeightOf(hts, section), 0))
         IN OfSection(Head(section_images))

\* Ok(mosaic) is [ok |-> TRUE, mosaic |-> ..], Err(PointerTooSmall) is [ok |-> FALSE]
from_image(img, pal, hts, kind, usize_max) ==
    LET section_size == U8Max
        section_images == make_sections(img, section_size)
        colors == with_palette(img.pixels, pal)
        \* `Ok(Mosaic::new(sections, ..))`, or the Err of `?`
        Returned(r) ==
            [ok |-> r.ok,
             mosaic |-> IF r.ok THEN new(r.sections, img.length, img.width)
                        ELSE new(<<>>, 0, 0),
             calls |-> [pixel |-> r.pixel_calls, nearest |-> r.nearest_calls,
                        height_fn |-> r.height_calls, brick_fn |-> r.brick_calls],
             regions |-> r.regions]
    IN Returned(Sections(colors, hts, kind, usize_max, section_images))

(***************************************************************************)
(* Mosaic::iter: the PlacedBricks in the order iter() yields them.         *)
(***************************************************************************)
RECURSIVE Flatten(_, _, _)
Flatten(seqs, lo, hi) ==
    IF lo > hi THEN <<>>
    ELSE IF lo = hi THEN seqs[lo]
    ELSE LET mid == (lo + hi) \div 2
         IN Flatten(seqs, lo, mid) \o Flatten(seqs, mid + 1, hi)

\* iter that forgets the offsets of the section
IterChunk_in_section(section, chunk) ==
    [k \in 1..Len(chunk.bricks) |->
        [l |-> chunk.l + chunk.bricks[k].l,
         w |-> chunk.w + chunk.bricks[k].w,
         h |-> chunk.h + chunk.bricks[k].h,
         brick |-> chunk.bricks[k].brick,
         color |-> chunk.color]]

IterChunk(section, chunk) ==
    [k \in 1..Len(chunk.bricks) |->
        [l |-> section.l + chunk.l + chunk.bricks[k].l,
         w |-> section.w + chunk.w + chunk.bricks[k].w,
         h |-> section.h + chunk.h + chunk.bricks[k].h,
         brick |-> chunk.bricks[k].brick,
         color |-> chunk.color]]

IterSection(section) ==
    Flatten([i \in 1..Len(section.chunks) |-> IterChunk(section, section.chunks[i])],
            1, Len(section.chunks))

iter(m) ==
    Flatten([i \in 1..Len(m.sections) |-> IterSection(m.sections[i])],
            1, Len(m.sections))

(***************************************************************************)
(* Chunk::fits, fits_layer, remove_brick and remove_brick_layer.           *)
(* ws_included_by_h[h + 1][l + 1] is the set of the w that are still empty *)
(* at (l, h).                                                              *)
(***************************************************************************)
\* a guard that looks at the height only
overflows_height_only(l, w, h, length, width, height) == U8Max - height < h

\* the guard at the top of fits: one of h + height, l + length, w + width
\* would not fit a u8
overflows(l, w, h, length, width, height) ==
    U8Max - height < h \/ U8Max - length < l \/ U8Max - width < w

\* fits_layer that tests the seed's row only
fits_layer_seed_row(l, w, length, width, ws_included_by_l) ==
    LET max_l == l + length
        max_w == w + width
    IN IF max_l > Len(ws_included_by_l) THEN FALSE
       ELSE ~(Cardinality({x \in ws_included_by_l[l + 1] : w <= x /\ x < max_w}) < width)

\* fits_layer counting the empty cells from w on, without the upper end
fits_layer_open_range(l, w, length, width, ws_included_by_l) ==
    LET max_l == l + length
    IN IF max_l > Len(ws_included_by_l) THEN FALSE
       ELSE \A test_l \in l..(max_l - 1) :
               ~(Cardinality({x \in ws_included_by_l[test_l + 1] : w <= x}) < width)

fits_layer(l, w, length, width, ws_included_by_l) ==
    LET max_l == l + length
        max_w == w + width
    IN IF max_l > Len(ws_included_by_l) THEN FALSE
       ELSE \A test_l \in l..(max_l - 1) :
               ~(Cardinality({x \in ws_included_by_l[test_l + 1] : w <= x /\ x < max_w})
                  < width)

\* fits that tests the layer of the seed only, whatever the height
fits_seed_layer(l, w, h, length, width, height, ws_included_by_h) ==
    IF overflows(l, w, h, length, width, height) THEN FALSE
    ELSE fits_layer(l, w, length, width, ws_included_by_h[h + 1])

fits(l, w, h, length, width, height, ws_included_by_h) ==
    IF overflows(l, w, h, length, width, height) THEN FALSE
    ELSE LET max_h == h + height
         IN IF max_h > Len(ws_included_by_h) THEN FALSE
            ELSE \A test_h \in h..(max_h - 1) :
                    fits_layer(l, w, length, width, ws_included_by_h[test_h + 1])

\* the sums of two u8 that fits and the fits_layer calls it makes compute
\* for these arguments: max_h, then max_l and max_w for every layer tested
fits_sums(l, w, h, length, width, height, ws_included_by_h) ==
    IF overflows(l, w, h, length, width, height) THEN {}
    ELSE {h + height}
         \cup (IF h + height > Len(ws_included_by_h) \/ height = 0 THEN {}
               ELSE {l + length, w + width})

\* the sums of two u8 that remove_brick and remove_brick_layer compute
remove_brick_sums(l, w, h, length, width, height) ==
    {h + height} \cup (IF height = 0 THEN {} ELSE {w + width})

remove_brick_layer(l, w, length, width, ws_included_by_l) ==
    LET min_l == l
        max_w == w + width
    IN [i \in 1..Len(ws_included_by_l) |->
           IF i - 1 >= min_l /\ i - 1 < min_l + length
           THEN ws_included_by_l[i] \ (w..(max_w - 1))
           ELSE ws_included_by_l[i]]

remove_brick(l, w, h, length, width, height, ws_included_by_h) ==
    LET max_h == h + height
    IN [i \in 1..Len(ws_included_by_h) |->
           IF i - 1 >= h /\ i - 1 < max_h
           THEN remove_brick_layer(l, w, length, width, ws_included_by_h[i])
           ELSE ws_included_by_h[i]]

(***************************************************************************)
(* Chunk::reduce_bricks.  rs carries ws_included_by_h and the bricks       *)
(* pushed so far; stuck is set when a pass of the while loop places no     *)
(* brick, so that the loop of the source would never end; sums collects    *)
(* the values of the u8 additions made.                                    *)
(***************************************************************************)
\* `for size in sizes` at the seed (l, w, h), from sizes[k] on
RECURSIVE TrySizes(_, _, _, _, _, _)
TrySizes(rs, sizes, k, l, w, h) ==
    IF k > Len(sizes) THEN rs
    ELSE LET size == sizes[k]
         IN IF fits(l, w, h, BrickLength(size), BrickWidth(size), BrickHeight(size),
                    rs.ws_included_by_h)
            THEN TrySizes([rs EXCEPT
                             !.ws_included_by_h =
                                 remove_brick(l, w, h, BrickLength(size), BrickWidth(size),
                                              BrickHeight(size), @),
                             !.bricks = Append(@, [l |-> l, w |-> w, h |-> h,
                                                   brick |-> size]),
                             !.sums = @ \cup fits_sums(l, w, h, BrickLength(size),
                                                       BrickWidth(size), BrickHeight(size),
                                                       rs.ws_included_by_h)
                                        \cup remove_brick_sums(l, w, h, BrickLength(size),
                                                               BrickWidth(size),
                                                               BrickHeight(size))],
                          sizes, k + 1, l, w, h)
            ELSE TrySizes([rs EXCEPT
                             !.sums = @ \cup fits_sums(l, w, h, BrickLength(size),
                                                       BrickWidth(size), BrickHeight(size),
                                                       rs.ws_included_by_h)],
                          sizes, k + 1, l, w, h)

\* one pass of `while !ws_included_by_h[h_index][l_index].is_empty()`
PackStep(rs, sizes, l, h) ==
    LET ws_included == rs.ws_included_by_h[h + 1][l + 1]
        w == CHOOSE x \in ws_included : \A y \in ws_included : x <= y
        Tried(next) ==
            IF next.ws_included_by_h = rs.ws_included_by_h
            THEN [rs EXCEPT !.stuck = TRUE]
            ELSE next
    IN Tried(TrySizes(rs, sizes, 1, l, w, h))

\* at most n passes of the while loop at (l, h)
RECURSIVE PackSteps(_, _, _, _, _)
PackSteps(rs, sizes, l, h, n) ==
    IF n = 0 \/ rs.stuck \/ rs.ws_included_by_h[h + 1][l + 1] = {} THEN rs
    ELSE IF n = 1 THEN PackStep(rs, sizes, l, h)
    ELSE LET half == PackSteps(rs, sizes, l, h, n \div 2)
         IN IF half.stuck THEN half
            ELSE PackSteps(half, sizes, l, h, n - n \div 2)

\* the while loop at (l, h), run to its end
RECURSIVE PackRow(_, _, _, _)
PackRow(rs, sizes, l, h) ==
    IF rs.stuck \/ rs.ws_included_by_h[h + 1][l + 1] = {} THEN rs
    ELSE PackRow(PackSteps(rs, sizes, l, h, 64), sizes, l, h)

\* `for h in 0..height { for l in 0..length {..} }`, the rows numbered
\* h * length + l, from row lo to row hi
RECURSIVE PackRows(_, _, _, _, _)
PackRows(rs, sizes, length, lo, hi) ==
    IF lo > hi \/ rs.stuck THEN rs
    ELSE IF lo = hi THEN PackRow(rs, sizes, lo % length, lo \div length)
    ELSE LET mid == (lo + hi) \div 2
             half == PackRows(rs, sizes, length, lo, mid)
         IN IF Evaluated(half) THEN PackRows(half, sizes, length, mid + 1, hi)
            ELSE half

\* a packer that pushes to the chunk's old list of bricks
Pack_appending(chunk, sizes) ==
    PackRows([ws_included_by_h |-> [h \in 1..chunk.height |-> chunk.ws_included],
              bricks |-> chunk.bricks,
              stuck |-> FALSE,
              sums |-> {}],
             sizes, chunk.length, 0, chunk.height * chunk.length - 1)

Pack(chunk, sizes) ==
    PackRows([ws_included_by_h |-> [h \in 1..chunk.height |-> chunk.ws_included],
              bricks |-> <<>>,
              stuck |-> FALSE,
              sums |-> {}],
             sizes, chunk.length, 0, chunk.height * chunk.length - 1)

\* reduce_bricks that hands back the columns the packer has emptied
chunk_reduce_bricks_emptied(chunk, sizes) ==
    [chunk EXCEPT !.ws_included = [i \in 1..Len(@) |-> {}],
                  !.bricks = Pack(chunk, sizes).bricks]

chunk_reduce_bricks(chunk, sizes) ==
    [unit_brick |-> chunk.unit_brick,
     color |-> chunk.color,
     l |-> chunk.l,
     w |-> chunk.w,
     h |-> chunk.h,
     length |-> chunk.length,
     width |-> chunk.width,
     height |-> chunk.height,
     ws_included |-> chunk.ws_included,
     bricks |-> Pack(chunk, sizes).bricks]

(***************************************************************************)
(* Mosaic::reduce_bricks.                                                  *)
(***************************************************************************)
\* the fold without the test for a square brick
Orientations_both(brick) ==
    IF brick.length > 0 /\ brick.width > 0 /\ brick.height > 0
    THEN <<NonUnit(brick), NonUnit(rotate_90(brick))>>
    ELSE <<>>

\* the fold without the test for a zero dimension
Orientations_unchecked(brick) ==
    <<NonUnit(brick)>>
    \o (IF brick.length # brick.width THEN <<NonUnit(rotate_90(brick))>> ELSE <<>>)

\* what the fold pushes for one catalog brick
Orientations(brick) ==
    IF brick.length > 0 /\ brick.width > 0 /\ brick.height > 0
    THEN <<NonUnit(brick)>>
         \o (IF brick.length # brick.width THEN <<NonUnit(rotate_90(brick))>> ELSE <<>>)
    ELSE <<>>

\* the fold pushing every brick to every entry
RECURSIVE Partition_all(_, _)
Partition_all(bricks, unit_brick) ==
    IF bricks = <<>> THEN <<>>
    ELSE Orientations(Head(bricks)) \o Partition_all(Tail(bricks), unit_brick)

\* the Vec the fold leaves in partitions[unit_brick]
RECURSIVE Partition(_, _)
Partition(bricks, unit_brick) ==
    IF bricks = <<>> THEN <<>>
    ELSE (IF Head(bricks).unit_brick = unit_brick THEN Orientations(Head(bricks))
          ELSE <<>>) \o Partition(Tail(bricks), unit_brick)

\* an ordering by the area of the footprint instead of the volume
CmpLess_by_area(a, b) == BrickLength(b) * BrickWidth(b) < BrickLength(a) * BrickWidth(a)

\* VolumeSortedBrick::cmp(a, b) = Less: descending by volume
CmpLess(a, b) == volume(b) < volume(a)

\* a sort that turns the order of equal elements around
Sort_ties_reversed(seq) ==
    LET n == Len(seq)
        pos(j) == 1 + Cardinality({k \in 1..n :
                         CmpLess(seq[k], seq[j])
                         \/ (~CmpLess(seq[j], seq[k]) /\ k > j)})
    IN [i \in 1..n |-> seq[CHOOSE j \in 1..n : pos(j) = i]]

\* bricks.sort(): a stable sort by cmp
Sort(seq) ==
    LET n == Len(seq)
        pos(j) == 1 + Cardinality({k \in 1..n :
                         CmpLess(seq[k], seq[j])
                         \/ (~CmpLess(seq[j], seq[k]) /\ k < j)})
    IN [i \in 1..n |-> seq[CHOOSE j \in 1..n : pos(j) = i]]

\* the keys of bricks_by_type and bricks_by_type[unit_brick]
TypeKeys(bricks) == {bricks[i].unit_brick : i \in 1..Len(bricks)}

\* the entry of a unit brick without the Unit brick pushed to it
BricksByType_no_unit(bricks, unit_brick) ==
    Sort(Partition(bricks, unit_brick))

BricksByType(bricks, unit_brick) ==
    Sort(Append(Partition(bricks, unit_brick), Unit(unit_brick)))

\* the filter closure comparing with == where the source asks is_rotation_of
NotExcluded_exact(brick, color, excl) ==
    IF brick.kind = "NonUnit"
    THEN ~\E i \in 1..Len(excl) : color = excl[i][2] /\ excl[i][1] = brick.b
    ELSE TRUE

\* the filter closure of lines 262-268
NotExcluded(brick, color, excl) ==
    IF brick.kind = "NonUnit"
    THEN ~\E i \in 1..Len(excl) :
             color = excl[i][2] /\ is_rotation_of(excl[i][1], brick.b)
    ELSE TRUE

\* bricks_by_height for a chunk
BricksByHeight(bricks, excl, unit_brick, color) ==
    SelectSeq(BricksByType(bricks, unit_brick), LAMBDA b : NotExcluded(b, color, excl))

ReduceChunk(chunk, bricks, excl) ==
    IF chunk.unit_brick \in TypeKeys(bricks)
    THEN chunk_reduce_bricks(chunk,
                             BricksByHeight(bricks, excl, chunk.unit_brick, chunk.color))
    ELSE chunk

reduce_bricks(m, bricks, excl) ==
    LET chunks == [i \in 1..Len(m.sections) |->
                      [l |-> m.sections[i].l,
                       w |-> m.sections[i].w,
                       h |-> m.sections[i].h,
                       chunks |-> [j \in 1..Len(m.sections[i].chunks) |->
                                      ReduceChunk(m.sections[i].chunks[j], bricks, excl)]]]
    IN [ok |-> TRUE, mosaic |-> new(chunks, m.length, m.width)]

(***************************************************************************)
(* The inputs of from_image the model draws from.  Small images have at    *)
(* most MaxCells pixels, every pixel one of two raw colors and every       *)
(* column a height of at most MaxHeight.  Large images reach past one      *)
(* section (U8Max) along one axis, by at most Over.                        *)
(***************************************************************************)
Cells(length, width) == (0..(length - 1)) \X (0..(width - 1))

Image(length, width, pixels) == [length |-> length, width |-> width, pixels |-> pixels]

RawColors == {0, 2}
Colors == {DefaultColor, 1, 2}

SmallDims == {d \in (0..MaxSide) \X (0..MaxSide) : d[1] * d[2] <= MaxCells}

\* a palette and a brick selector: the empty palette with one selector only
Callbacks == {<<<<1, 2>>, kind>> : kind \in BrickKinds} \cup {<<<<>>, "const">>}

EmptyMosaic == new(<<>>, 0, 0)

NotIterated == [n |-> 0, first |-> <<>>, last |-> <<>>]

NoCalls == [pixel |-> <<>>, nearest |-> <<>>, height_fn |-> <<>>, brick_fn |-> <<>>]

\* the state before from_image is called with these arguments
\* no Base::new call
NoBase == [status |-> "none"]

\* the mosaic's part of the state before from_image
MosaicStart(img, pal, hts, kind, usize_max) ==
    /\ image = img
    /\ palette = pal
    /\ heights = hts
    /\ brickKind = kind
    /\ usizeMax = usize_max
    /\ pc = "start"
    /\ result = "none"
    /\ mosaic = EmptyMosaic
    /\ prev = EmptyMosaic
    /\ catalog = <<>>
    /\ exclusions = <<>>
    /\ nReduce = 0
    /\ calls = NoCalls
    /\ yielded = NotIterated
    /\ regions = <<>>

Start(img, pal, hts, kind, usize_max) ==
    /\ MosaicStart(img, pal, hts, kind, usize_max)
    /\ baseArgs = <<>>
    /\ base = NoBase
    /\ baseYielded = [n |-> 0, bricks |-> <<>>]
    /\ packIn = <<>>
    /\ packOut = <<>>

InitSmall ==
    \E d \in SmallDims :
        \E px \in [Cells(d[1], d[2]) -> RawColors],
           hts \in [Cells(d[1], d[2]) -> 0..MaxHeight],
           cb \in Callbacks :
            Start(Image(d[1], d[2], px), cb[1], hts, cb[2], I32Max)

\* one row, one line or one column that is U8Max + over long, wide or tall
InitLarge ==
    \E over \in 0..Over, kind \in {"const", "byH"} :
        \/ Start(Image(U8Max + over, 1,
                       [c \in Cells(U8Max + over, 1) |-> IF c[1] < U8Max - 1 THEN 0 ELSE 2]),
                 <<1, 2>>, [c \in Cells(U8Max + over, 1) |-> 1], kind, I32Max)
        \/ Start(Image(1, U8Max + over, [c \in Cells(1, U8Max + over) |-> 2]),
                 <<1, 2>>, [c \in Cells(1, U8Max + over) |-> 1], kind, I32Max)
        \/ Start(Image(1, 1, [c \in Cells(1, 1) |-> 0]),
                 <<1, 2>>, [c \in Cells(1, 1) |-> U8Max + over], kind, I32Max)

\* a section of U8Max x 2 columns and a slab U8Max tall: on a target with
\* 16-bit pointers its voxels cannot be indexed; with over > 0 a second
\* section follows it
InitSmallPointer ==
    \E usize_max \in {U16Max, I32Max}, over \in 0..Over :
        Start(Image(U8Max + over, 2, [c \in Cells(U8Max + over, 2) |-> 0]),
              <<1, 2>>,
              [c \in Cells(U8Max + over, 2) |-> IF c = <<0, 0>> THEN U8Max ELSE 0],
              "const", usize_max)

\* the 4 x 5 image of make_test_img, its colors numbered 1 to 4, row by row
TestImagePixels ==
    <<<<1, 1, 1, 4>>, <<1, 4, 4, 4>>, <<4, 4, 4, 2>>, <<3, 3, 3, 3>>, <<4, 3, 3, 3>>>>

\* make_test_img with one height for every column and one unit brick
InitTestImage ==
    \E height \in 1..MaxHeight :
        Start(Image(4, 5, [c \in Cells(4, 5) |-> TestImagePixels[c[2] + 1][c[1] + 1]]),
              <<1, 2, 3, 4>>, [c \in Cells(4, 5) |-> height], "const", I32Max)

\* a row of four columns, the first of another color than the others, with
\* a brick selector that looks at the color
InitRow ==
    \E hts \in [Cells(4, 1) -> 1..MaxHeight] :
        Start(Image(4, 1, [c \in Cells(4, 1) |-> IF c[1] = 0 THEN 0 ELSE 2]),
              <<1, 2>>, hts, "byColor", I32Max)

\* the call Mosaic::from_image(&image, &palette, height_fn, brick_fn)
FromImage ==
    /\ pc = "start"
    /\ LET Returns(r) ==
               /\ pc' = IF r.ok THEN "built" ELSE "failed"
               /\ result' = IF r.ok THEN "Ok" ELSE "PointerTooSmall"
               /\ mosaic' = IF r.ok THEN r.mosaic ELSE mosaic
               /\ calls' = r.calls
               /\ regions' = r.regions
       IN Returns(from_image(image, palette, heights, brickKind, usizeMax))
    /\ UNCHANGED <<image, palette, heights, brickKind, usizeMax, prev, catalog,
                   exclusions, nReduce, yielded, baseVars, packVars>>

(***************************************************************************)
(* The arguments of reduce_bricks the model draws from: the bricks of the  *)
(* test module and a few catalogs and exclusion lists made of them.        *)
(***************************************************************************)
TWO_BY_ONE_PLATE == TestBrick("2x1x1", 2, 1, 1, UNIT_BRICK)
TWO_BY_ONE_PLATE_2 == TestBrick("2x1x1", 2, 1, 1, UNIT_BRICK_3)
ONE_BY_TWO_PLATE == TestBrick("1x2x1", 1, 2, 1, UNIT_BRICK)
TWO_BY_TWO_PLATE == TestBrick("2x2x1", 2, 2, 1, UNIT_BRICK)
TWO_BY_ONE_BY_TWO_BRICK == TestBrick("2x1x2", 2, 1, 2, UNIT_BRICK)
ZERO_BY_TWO_PLATE == TestBrick("0x2x1", 0, 2, 1, UNIT_BRICK)
ZERO_HEIGHT_BRICK == TestBrick("2x1x0", 2, 1, 0, UNIT_BRICK)
ONE_BY_ONE_PLATE == TestBrick("1x1x1", 1, 1, 1, UNIT_BRICK)
THREE_BY_ONE_PLATE == TestBrick("3x1x1", 3, 1, 1, UNIT_BRICK)
\* a 2x2 plate for the second unit brick
TWO_BY_TWO_PLATE_2 == TestBrick("2x2x1", 2, 2, 1, UNIT_BRICK_2)

\* pairs <<bricks, exclusions>>; an exclusion is <<brick, color>>
ReduceArgs ==
    {<<<<>>, <<>>>>,
     <<<<>>, <<<<TWO_BY_ONE_PLATE, 1>>, <<TWO_BY_ONE_PLATE, 2>>>>>>,
     <<<<TWO_BY_ONE_PLATE>>, <<>>>>,
     <<<<TWO_BY_ONE_PLATE>>,
       <<<<TWO_BY_ONE_PLATE, DefaultColor>>, <<TWO_BY_ONE_PLATE, 1>>,
         <<TWO_BY_ONE_PLATE, 2>>>>>>,
     <<<<TWO_BY_ONE_PLATE, TWO_BY_TWO_PLATE, TWO_BY_TWO_PLATE_2>>, <<>>>>,
     <<<<TWO_BY_ONE_PLATE, TWO_BY_TWO_PLATE, TWO_BY_TWO_PLATE_2>>,
       <<<<rotate_90(TWO_BY_ONE_PLATE), 1>>, <<TWO_BY_TWO_PLATE, DefaultColor>>>>>>,
     <<<<TWO_BY_ONE_BY_TWO_BRICK, TWO_BY_ONE_PLATE, TWO_BY_ONE_PLATE_2>>, <<>>>>,
     <<<<TWO_BY_ONE_PLATE_2>>, <<>>>>,
     <<<<TWO_BY_TWO_PLATE, TWO_BY_ONE_BY_TWO_BRICK, ONE_BY_ONE_PLATE>>, <<>>>>,
     <<<<THREE_BY_ONE_PLATE, TWO_BY_ONE_BY_TWO_BRICK>>, <<>>>>,
     <<<<ZERO_BY_TWO_PLATE, ZERO_HEIGHT_BRICK>>, <<>>>>,
     <<<<ZERO_BY_TWO_PLATE, TWO_BY_ONE_PLATE>>,
       <<<<ONE_BY_TWO_PLATE, 1>>, <<TWO_BY_ONE_PLATE, 2>>>>>>}

\* the images reduce_bricks is tried on: up to MaxReduceCells pixels, every
\* column at least one voxel tall
ReduceDims == {d \in (1..MaxReduceCells) \X (1..MaxReduceCells) :
                  d[1] * d[2] <= MaxReduceCells /\ d[1] * d[2] > 1}

\* the 2 x 2 images of one color, with an empty palette the 2 x 1 images,
\* empty columns and the empty mosaic included, and the images without pixels
InitReduce ==
    \E kind \in {"const", "byColor"} :
        \/ \E d \in ReduceDims :
              \E px \in [Cells(d[1], d[2]) -> RawColors],
                 hts \in [Cells(d[1], d[2]) -> 1..MaxHeight] :
                  Start(Image(d[1], d[2], px), <<1, 2>>, hts, kind, I32Max)
        \/ \E raw \in RawColors, hts \in [Cells(2, 2) -> 1..MaxHeight] :
              Start(Image(2, 2, [c \in Cells(2, 2) |-> raw]), <<1, 2>>, hts, kind,
                    I32Max)
        \/ \E px \in [Cells(2, 1) -> RawColors], hts \in [Cells(2, 1) -> 0..MaxHeight] :
              /\ kind = "const"
              /\ Start(Image(2, 1, px), <<>>, hts, kind, I32Max)
        \/ \E d \in {<<0, 0>>, <<0, 2>>, <<2, 0>>} :
              /\ kind = "const"
              /\ Start(Image(d[1], d[2], [c \in Cells(d[1], d[2]) |-> 0]), <<1, 2>>,
                       [c \in Cells(d[1], d[2]) |-> 1], kind, I32Max)

\* the call mosaic.reduce_bricks(&bricks, &exclusions)
ReduceBricks ==
    /\ pc = "built"
    /\ nReduce < MaxReduce
    /\ \E args \in ReduceArgs :
           LET Reduced(r) ==
                   /\ result' = IF r.ok THEN "Ok" ELSE "PointerTooSmall"
                   /\ mosaic' = r.mosaic
                   /\ prev' = mosaic
                   /\ catalog' = args[1]
                   /\ exclusions' = args[2]
                   /\ nReduce' = nReduce + 1
           IN Reduced(reduce_bricks(mosaic, args[1], args[2]))
    /\ UNCHANGED <<image, palette, heights, brickKind, usizeMax, pc, calls, yielded,
                   regions, baseVars, packVars>>

\* the caller runs mosaic.iter() to its end
Iterate ==
    /\ pc = "built"
    /\ yielded' = [n |-> Min(yielded.n + 1, 2),
                   first |-> IF yielded.n = 0 THEN iter(mosaic) ELSE yielded.first,
                   last |-> iter(mosaic)]
    /\ UNCHANGED <<image, palette, heights, brickKind, usizeMax, pc, result, mosaic,
                   prev, catalog, exclusions, nReduce, calls, regions, baseVars,
                   packVars>>

InitBuild == InitSmall \/ InitLarge \/ InitSmallPointer \/ InitTestImage \/ InitRow
NextBuild == FromImage
SpecBuild == InitBuild /\ [][NextBuild]_vars

\* from_image, then iter() any number of times
NextIter == FromImage \/ Iterate
SpecIter == InitBuild /\ [][NextIter]_vars

\* a line one pixel longer than a section, its color changing before the
\* section's end
InitLine ==
    Start(Image(U8Max + 1, 1, [c \in Cells(U8Max + 1, 1) |-> IF c[1] < U8Max - 1 THEN 0 ELSE 2]),
          <<1, 2>>, [c \in Cells(U8Max + 1, 1) |-> 1], "const", I32Max)

Init == InitReduce \/ InitLine
Next == FromImage \/ ReduceBricks
Spec == Init /\ [][Next]_vars

(***************************************************************************)
(* What a mosaic places, as sets of voxels.                                *)
(***************************************************************************)
\* the voxels a PlacedBrick fills
VoxelsOf(p) ==
    {<<p.l + dl, p.w + dw, p.h + dh>> :
        dl \in 0..(BrickLength(p.brick) - 1),
        dw \in 0..(BrickWidth(p.brick) - 1),
        dh \in 0..(BrickHeight(p.brick) - 1)}

\* the voxels the image and the height callback ask for
FilledVoxels ==
    UNION {{<<c[1], c[2], h>> : h \in 0..(heights[c] - 1)} : c \in DOMAIN heights}

\* f[lo] + .. + f[hi]
RECURSIVE SumTo(_, _, _)
SumTo(f, lo, hi) ==
    IF lo > hi THEN 0
    ELSE IF lo = hi THEN f[lo]
    ELSE LET mid == (lo + hi) \div 2
         IN SumTo(f, lo, mid) + SumTo(f, mid + 1, hi)

PlacedVolume(ps) == SumTo([i \in 1..Len(ps) |-> volume(ps[i].brick)], 1, Len(ps))

HeightSum ==
    LET n == image.length * image.width
    IN SumTo([i \in 1..n |-> heights[<<(i - 1) % image.length,
                                       (i - 1) \div image.length>>]], 1, n)

\* every voxel of S is inside exactly one brick of ps, and no brick of ps
\* leaves S
TilesExactly(ps, S) ==
    /\ \A v \in S : Cardinality({i \in 1..Len(ps) : v \in VoxelsOf(ps[i])}) = 1
    /\ \A i \in 1..Len(ps) : VoxelsOf(ps[i]) \subseteq S

(***************************************************************************)
(* C1: the bricks iter() yields for a mosaic returned by from_image cover  *)
(* exactly the voxels (l, w, h) with h below the height of column (l, w):  *)
(* each such voxel is inside exactly one brick, no brick covers any other  *)
(* voxel, and the placed volume is the sum of the column heights.          *)
(***************************************************************************)
C1_Coverage ==
    (pc = "built" /\ nReduce = 0) =>
        /\ TilesExactly(iter(mosaic), FilledVoxels)
        /\ PlacedVolume(iter(mosaic)) = HeightSum

\* a built mosaic with an empty column next to columns of different heights
C1_Witness ==
    /\ pc = "built"
    /\ \E c \in DOMAIN heights : heights[c] = 0
    /\ \E c, d \in DOMAIN heights : heights[c] > 1 /\ heights[d] = 1
    /\ Len(iter(mosaic)) > 2

(***************************************************************************)
(* The chunks of a mosaic.                                                 *)
(***************************************************************************)
\* the pairs <<i, j>> that name chunk j of section i
ChunkIds(m) ==
    UNION {{<<i, j>> : j \in 1..Len(m.sections[i].chunks)} : i \in 1..Len(m.sections)}

ChunkOf(m, id) == m.sections[id[1]].chunks[id[2]]

\* the voxels of a chunk, relative to the chunk: its footprint columns times
\* its height span
ChunkVoxels(chunk) ==
    UNION {{<<l - 1, w, h>> : w \in chunk.ws_included[l], h \in 0..(chunk.height - 1)} :
              l \in 1..Len(chunk.ws_included)}

\* reduce_bricks keeps the sections and the chunks in their places
SameChunkIds == ChunkIds(mosaic) = ChunkIds(prev)

(***************************************************************************)
(* C2: after reduce_bricks the bricks of every chunk tile exactly that     *)
(* chunk's voxels: every voxel is inside exactly one brick, no brick       *)
(* leaves the footprint or the height span, and the brick volume of the    *)
(* chunk is what it was before the call.                                   *)
(***************************************************************************)
C2_ChunkTiling ==
    nReduce > 0 =>
        /\ SameChunkIds
        /\ \A id \in ChunkIds(mosaic) :
               /\ TilesExactly(ChunkOf(mosaic, id).bricks, ChunkVoxels(ChunkOf(mosaic, id)))
               /\ PlacedVolume(ChunkOf(mosaic, id).bricks)
                      = PlacedVolume(ChunkOf(prev, id).bricks)

\* a chunk packed with a non-unit brick and a unit brick, by a call whose
\* catalog also holds a shape taller than the chunk
C2_Witness ==
    /\ nReduce > 0
    /\ \E id \in ChunkIds(mosaic) :
           LET chunk == ChunkOf(mosaic, id)
           IN /\ \E k \in 1..Len(chunk.bricks) : chunk.bricks[k].brick.kind = "NonUnit"
              /\ \E k \in 1..Len(chunk.bricks) : chunk.bricks[k].brick.kind = "Unit"
              /\ \E k \in 1..Len(catalog) :
                     /\ catalog[k].unit_brick = chunk.unit_brick
                     /\ catalog[k].height > chunk.height

(***************************************************************************)
(* C3: for every chunk of a built mosaic and every column of its footprint *)
(* the chunk's color is palette.nearest of the image's pixel at the        *)
(* column's global coordinates, or the default color when nearest returns  *)
(* None; reduce_bricks leaves the color of every chunk as it was.          *)
(***************************************************************************)
C3_ColorFidelity ==
    /\ pc = "built" =>
           \A i \in 1..Len(mosaic.sections) :
               \A j \in 1..Len(mosaic.sections[i].chunks) :
                   LET section == mosaic.sections[i]
                       chunk == section.chunks[j]
                   IN \A l \in 1..Len(chunk.ws_included) :
                          \A w \in chunk.ws_included[l] :
                              chunk.color = unwrap_or_default(nearest(palette,
                                  image.pixels[<<section.l + chunk.l + (l - 1),
                                                 section.w + chunk.w + w>>]))
    /\ nReduce > 0 =>
           /\ SameChunkIds
           /\ \A id \in ChunkIds(mosaic) : ChunkOf(mosaic, id).color = ChunkOf(prev, id).color

\* a reduced mosaic of two colors, neither the raw color of its pixel
C3_Witness ==
    /\ nReduce > 0
    /\ \E id1, id2 \in ChunkIds(mosaic) :
           /\ ChunkOf(mosaic, id1).color # ChunkOf(mosaic, id2).color
           /\ \E k \in 1..Len(ChunkOf(mosaic, id1).bricks) :
                  ChunkOf(mosaic, id1).bricks[k].brick.kind = "NonUnit"
    /\ \E c \in DOMAIN image.pixels :
           image.pixels[c] # unwrap_or_default(nearest(palette, image.pixels[c]))

\* brick b is excluded for color c by the exclusion list excl
Excluded(b, c, excl) ==
    \E e \in 1..Len(excl) : excl[e][2] = c /\ is_rotation_of(excl[e][1], b)

\* the non-unit bricks placed in a chunk
NonUnitsOf(chunk) ==
    {chunk.bricks[k].brick.b : k \in {n \in 1..Len(chunk.bricks) :
                                          chunk.bricks[n].brick.kind = "NonUnit"}}

(***************************************************************************)
(* C4: after reduce_bricks(catalog, exclusions) no chunk of color c        *)
(* contains a non-unit brick b for which some exclusion (e, c) satisfies   *)
(* e.is_rotation_of(b).                                                    *)
(***************************************************************************)
C4_NoExcludedBrick ==
    nReduce > 0 =>
        \A id \in ChunkIds(mosaic) :
            \A b \in NonUnitsOf(ChunkOf(mosaic, id)) :
                ~Excluded(b, ChunkOf(mosaic, id).color, exclusions)

\* the same, after a call on a mosaic that came from from_image
C4_FirstCall ==
    nReduce = 1 =>
        \A id \in ChunkIds(mosaic) :
            \A b \in NonUnitsOf(ChunkOf(mosaic, id)) :
                ~Excluded(b, ChunkOf(mosaic, id).color, exclusions)

\* the set of the elements of a sequence
Range(seq) == {seq[i] : i \in 1..Len(seq)}

ZeroDimension(b) == b.length = 0 \/ b.width = 0 \/ b.height = 0

\* the catalog offers no non-unit shape that could be placed in mosaic m:
\* every entry has a zero dimension, or is tagged with a unit brick no chunk
\* of m has, or is excluded for every color of m
NoUsableShape(bricks, excl, m) ==
    \A k \in 1..Len(bricks) :
        \/ ZeroDimension(bricks[k])
        \/ \A id \in ChunkIds(m) : ChunkOf(m, id).unit_brick # bricks[k].unit_brick
        \/ \A id \in ChunkIds(m) : Excluded(bricks[k], ChunkOf(m, id).color, excl)

(***************************************************************************)
(* C5: reduce_bricks applied to a mosaic that came from from_image, with a *)
(* catalog that offers no usable non-unit shape, yields a mosaic whose     *)
(* iter() gives the same set of placements as before: one Unit brick of    *)
(* the original identity and color at every voxel.                         *)
(***************************************************************************)
C5_UnitOnlyUnchanged ==
    (nReduce = 1 /\ NoUsableShape(catalog, exclusions, prev)) =>
        /\ Range(iter(mosaic)) = Range(iter(prev))
        /\ Len(iter(mosaic)) = Len(iter(prev))
        /\ \A p \in Range(iter(mosaic)) : p.brick.kind = "Unit"

\* a catalog shape of a chunk's unit brick that fits the chunk, excluded for
\* every color; the chunk was packed again (its bricks come in a new order)
C5_Witness ==
    /\ nReduce = 1
    /\ NoUsableShape(catalog, exclusions, prev)
    /\ \E k \in 1..Len(catalog), id \in ChunkIds(prev) :
           /\ ~ZeroDimension(catalog[k])
           /\ ChunkOf(prev, id).unit_brick = catalog[k].unit_brick
           /\ ChunkOf(prev, id).length >= catalog[k].length
    /\ iter(mosaic) # iter(prev)

\* the brick selector returns a non-unit shape for some voxel
SelectorReturnsShape ==
    \E v \in FilledVoxels :
        ~IsUnitShape(brick_fn(brickKind, v[1], v[2], v[3],
                              unwrap_or_default(nearest(palette,
                                                        image.pixels[<<v[1], v[2]>>]))))

NonUnitsIn(m) == UNION {NonUnitsOf(ChunkOf(m, id)) : id \in ChunkIds(m)}

(***************************************************************************)
(* C7: reduce_bricks returns Ok for every catalog and every exclusion      *)
(* list, on an empty mosaic too; a catalog entry with length, width or     *)
(* height 0 is skipped: neither it nor its rotation is placed anywhere.    *)
(***************************************************************************)
C7_ZeroDimensionSkipped ==
    nReduce > 0 =>
        /\ result = "Ok"
        /\ pc = "built"
        /\ \A b \in NonUnitsIn(mosaic) : ~ZeroDimension(b)
        /\ \A k \in 1..Len(catalog) :
               ZeroDimension(catalog[k]) =>
                   /\ catalog[k] \notin NonUnitsIn(mosaic)
                   /\ rotate_90(catalog[k]) \notin NonUnitsIn(mosaic)
                   /\ \A b \in NonUnitsIn(mosaic) : ~is_rotation_of(catalog[k], b)

\* a chunk packed from a catalog that holds a zero-length entry of the
\* chunk's unit brick next to a shape that was placed
C7_Witness ==
    /\ nReduce > 0
    /\ result = "Ok"
    /\ \E k \in 1..Len(catalog), id \in ChunkIds(mosaic) :
           /\ ZeroDimension(catalog[k])
           /\ catalog[k].unit_brick = ChunkOf(mosaic, id).unit_brick
           /\ NonUnitsOf(ChunkOf(mosaic, id)) # {}

\* how often x occurs in seq
Count(seq, x) == Cardinality({k \in 1..Len(seq) : seq[k] = x})

\* the candidates a chunk of color c gets that are catalog entry b in one of
\* its orientations
Contributed(b, c) ==
    LET sizes == BricksByHeight(catalog, exclusions, b.unit_brick, c)
    IN Cardinality({k \in 1..Len(sizes) :
                       sizes[k].kind = "NonUnit" /\ is_rotation_of(b, sizes[k].b)})

\* entry b gives the candidate list for color c itself once, and its
\* rotation once if rotated is TRUE and never otherwise
Contributes(b, c, rotated) ==
    LET sizes == BricksByHeight(catalog, exclusions, b.unit_brick, c)
    IN /\ Count(sizes, NonUnit(b)) = 1
       /\ Count(sizes, NonUnit(rotate_90(b))) = IF rotated THEN 1 ELSE 0
       /\ Contributed(b, c) = IF rotated THEN 2 ELSE 1

(***************************************************************************)
(* C8 as claimed: in the candidate list reduce_bricks builds for a unit    *)
(* brick, a catalog shape with length = width contributes exactly one      *)
(* candidate (never its rotation) and a catalog shape with length # width  *)
(* exactly two, itself and rotate_90 of it, unless it is excluded for the  *)
(* chunk's color.                                                          *)
(***************************************************************************)
C8_RotationDedup ==
    nReduce > 0 =>
        \A k \in 1..Len(catalog), c \in Colors :
            ~Excluded(catalog[k], c, exclusions) =>
                Contributes(catalog[k], c, catalog[k].length # catalog[k].width)

(***************************************************************************)
(* C8 as amended: a catalog shape whose length, width and height are all   *)
(* nonzero contributes exactly one candidate if length = width and exactly *)
(* two, itself and rotate_90 of it, if length # width, unless it is        *)
(* excluded for the chunk's color; an excluded shape and a shape with a    *)
(* zero dimension contribute none.                                         *)
(***************************************************************************)
C8_RotationDedupNonZero ==
    nReduce > 0 =>
        \A k \in 1..Len(catalog), c \in Colors :
            IF ZeroDimension(catalog[k]) \/ Excluded(catalog[k], c, exclusions)
            THEN Contributed(catalog[k], c) = 0
            ELSE Contributes(catalog[k], c, catalog[k].length # catalog[k].width)

\* a call whose catalog holds a square shape and a shape that is not square,
\* one of them excluded for one color and not for another
C8_Witness ==
    /\ nReduce > 0
    /\ \E j, k \in 1..Len(catalog) :
           /\ ~ZeroDimension(catalog[j]) /\ catalog[j].length = catalog[j].width
           /\ ~ZeroDimension(catalog[k]) /\ catalog[k].length # catalog[k].width
           /\ \E c, d \in Colors :
                  /\ Excluded(catalog[k], c, exclusions)
                  /\ ~Excluded(catalog[k], d, exclusions)
                  /\ Contributed(catalog[k], d) = 2
                  /\ Contributed(catalog[j], d) = 1

(***************************************************************************)
(* C9: after reduce_bricks every brick placed in a chunk has unit_brick()  *)
(* equal to the chunk's unit brick: a catalog shape tagged with another    *)
(* unit brick is never placed in the chunk, even where it would fit.       *)
(***************************************************************************)
C9_SameUnitBrick ==
    nReduce > 0 =>
        \A id \in ChunkIds(mosaic) :
            \A k \in 1..Len(ChunkOf(mosaic, id).bricks) :
                BrickUnitBrick(ChunkOf(mosaic, id).bricks[k].brick)
                    = ChunkOf(mosaic, id).unit_brick

\* a chunk that was packed (its unit brick has catalog entries) by a call
\* whose catalog holds a shape of another unit brick that fits the empty chunk
C9_Witness ==
    /\ nReduce > 0
    /\ \E id \in ChunkIds(mosaic), k \in 1..Len(catalog) :
           LET chunk == ChunkOf(mosaic, id)
           IN /\ chunk.unit_brick \in TypeKeys(catalog)
              /\ catalog[k].unit_brick # chunk.unit_brick
              /\ ~ZeroDimension(catalog[k])
              /\ \E l \in 0..(chunk.length - 1), w \in 0..(chunk.width - 1) :
                     fits(l, w, 0, catalog[k].length, catalog[k].width,
                          catalog[k].height,
                          [h \in 1..chunk.height |-> chunk.ws_included])

(***************************************************************************)
(* The sections and slabs of an image.                                     *)
(***************************************************************************)
\* the section of make_sections that starts at (section_l, section_w)
SectionAt(section_l, section_w) ==
    CHOOSE s \in Range(make_sections(image, U8Max)) :
        s.section_l = section_l /\ s.section_w = section_w

\* the height of the slab of that section that starts at section_h
SlabHeight(s, section_h) == Min(U8Max, MaxHeightOf(heights, s) - section_h)

\* voxel v is inside the section-slab of mosaic section sec
InSlab(v, sec) ==
    LET s == SectionAt(sec.l, sec.w)
    IN /\ sec.l <= v[1] /\ v[1] < sec.l + s.section_length
       /\ sec.w <= v[2] /\ v[2] < sec.w + s.section_width
       /\ sec.h <= v[3] /\ v[3] < sec.h + SlabHeight(s, sec.h)

(***************************************************************************)
(* C10: from_image splits the image into sections with length and width    *)
(* between 1 and 255 and each section into slabs at most 255 high, at      *)
(* offsets that are multiples of 255; every filled voxel belongs to        *)
(* exactly one section-slab and every chunk lies inside its section-slab.  *)
(***************************************************************************)
C10_Sections ==
    pc = "built" =>
        /\ \A s \in Range(make_sections(image, U8Max)) :
               /\ s.section_length \in 1..U8Max
               /\ s.section_width \in 1..U8Max
               /\ s.section_l % U8Max = 0
               /\ s.section_w % U8Max = 0
        /\ \A sec \in Range(mosaic.sections) :
               /\ \E s \in Range(make_sections(image, U8Max)) :
                      s.section_l = sec.l /\ s.section_w = sec.w
               /\ sec.h % U8Max = 0
               /\ SlabHeight(SectionAt(sec.l, sec.w), sec.h) \in 1..U8Max
               /\ \A j \in 1..Len(sec.chunks) :
                      /\ sec.chunks[j].l + sec.chunks[j].length
                             <= SectionAt(sec.l, sec.w).section_length
                      /\ sec.chunks[j].w + sec.chunks[j].width
                             <= SectionAt(sec.l, sec.w).section_width
                      /\ sec.chunks[j].h + sec.chunks[j].height
                             <= SlabHeight(SectionAt(sec.l, sec.w), sec.h)
        /\ \A v \in FilledVoxels :
               Cardinality({i \in 1..Len(mosaic.sections) :
                               InSlab(v, mosaic.sections[i])}) = 1

\* a column taller than 255, split into a slab at 0 and a slab at 255
C10_Witness ==
    /\ pc = "built"
    /\ \E c \in DOMAIN heights : heights[c] > U8Max
    /\ \E i, j \in 1..Len(mosaic.sections) :
           /\ mosaic.sections[i].h = 0
           /\ mosaic.sections[j].h = U8Max
           /\ mosaic.sections[j].chunks # <<>>

(***************************************************************************)
(* C11.  The calls from_image makes to its callbacks.                      *)
(***************************************************************************)
\* the log holds no argument twice
NoRepeat(log) == Cardinality(Range(log)) = Len(log)

\* brick_fn is called at most once for a global voxel, and for filled voxels only
BrickFnCallsOk ==
    /\ NoRepeat([k \in 1..Len(calls.brick_fn) |->
                    <<calls.brick_fn[k][1], calls.brick_fn[k][2], calls.brick_fn[k][3]>>])
    /\ \A k \in 1..Len(calls.brick_fn) :
           LET v == calls.brick_fn[k]
           IN /\ <<v[1], v[2]>> \in Cells(image.length, image.width)
              /\ v[3] < heights[<<v[1], v[2]>>]

\* the log holds every pixel of the image exactly once
OncePerPixel(log) ==
    NoRepeat(log) /\ Range(log) = Cells(image.length, image.width)

\* C11 as claimed: during one from_image call image.pixel, palette.nearest
\* and height_fn are each called exactly once for every pixel of the image,
\* and brick_fn at most once for a global voxel and only for filled voxels.
C11_CallsOnce ==
    pc # "start" =>
        /\ OncePerPixel(calls.pixel)
        /\ OncePerPixel(calls.nearest)
        /\ OncePerPixel(calls.height_fn)
        /\ BrickFnCallsOk

\* C11, amended: a from_image call that returns Ok has called image.pixel,
\* palette.nearest and height_fn exactly once for every pixel; a call that
\* returns PointerTooSmall has called each at most once for a pixel (the
\* pixels of the sections after the failing one are never read).  In both
\* cases brick_fn was called at most once for a global voxel and only for
\* filled voxels.
C11_CallsOnceIfOk ==
    /\ pc = "built" =>
           /\ OncePerPixel(calls.pixel)
           /\ OncePerPixel(calls.nearest)
           /\ OncePerPixel(calls.height_fn)
    /\ pc = "failed" =>
           \A log \in {calls.pixel, calls.nearest, calls.height_fn} :
               NoRepeat(log) /\ Range(log) \subseteq Cells(image.length, image.width)
    /\ BrickFnCallsOk

\* a mosaic of two chunks that touch: the flood fill of the first tested a
\* voxel of the second, which was later a start position
C11_Witness ==
    /\ pc = "built"
    /\ Len(mosaic.sections) = 1
    /\ Len(mosaic.sections[1].chunks) = 2
    /\ image.length * image.width = 2
    /\ Len(calls.brick_fn) = 2

(***************************************************************************)
(* C12.  What reduce_bricks leaves alone.                                  *)
(***************************************************************************)
\* a chunk without its brick list
Metadata(chunk) ==
    [unit_brick |-> chunk.unit_brick, color |-> chunk.color,
     l |-> chunk.l, w |-> chunk.w, h |-> chunk.h,
     length |-> chunk.length, width |-> chunk.width, height |-> chunk.height,
     ws_included |-> chunk.ws_included]

\* C12: reduce_bricks changes nothing but brick lists: the mosaic's length
\* and width, the sections, their order and offsets, the chunks, their order
\* and every field of a chunk but bricks are as before the call; a chunk
\* whose unit brick has no entry in the catalog keeps its brick list too.
C12_Frame ==
    nReduce > 0 =>
        /\ mosaic.length = prev.length
        /\ mosaic.width = prev.width
        /\ Len(mosaic.sections) = Len(prev.sections)
        /\ \A i \in 1..Len(prev.sections) :
               /\ mosaic.sections[i].l = prev.sections[i].l
               /\ mosaic.sections[i].w = prev.sections[i].w
               /\ mosaic.sections[i].h = prev.sections[i].h
               /\ Len(mosaic.sections[i].chunks) = Len(prev.sections[i].chunks)
               /\ \A j \in 1..Len(prev.sections[i].chunks) :
                      /\ Metadata(mosaic.sections[i].chunks[j])
                            = Metadata(prev.sections[i].chunks[j])
                      /\ prev.sections[i].chunks[j].unit_brick \notin TypeKeys(catalog)
                            => mosaic.sections[i].chunks[j] = prev.sections[i].chunks[j]

\* a call that changed the bricks of one chunk and had no catalog entry for
\* another chunk
C12_Witness ==
    /\ nReduce > 0
    /\ \E id \in ChunkIds(prev) :
           /\ ChunkOf(prev, id).unit_brick \in TypeKeys(catalog)
           /\ ChunkOf(mosaic, id).bricks # ChunkOf(prev, id).bricks
    /\ \E id \in ChunkIds(prev) :
           /\ ChunkOf(prev, id).unit_brick \notin TypeKeys(catalog)
           /\ ChunkOf(prev, id).bricks # <<>>

(***************************************************************************)
(* C13.  Images without pixels and images without voxels.                  *)
(***************************************************************************)
NoVoxels == \A c \in Cells(image.length, image.width) : heights[c] = 0

\* C13: from_image on an image with length 0 or width 0, or with height 0
\* at every column, returns Ok with no section and an iter() that yields
\* nothing, and every reduce_bricks call on that mosaic returns Ok with no
\* section and an iter() that yields nothing again.
C13_Degenerate ==
    (pc # "start" /\ (image.length = 0 \/ image.width = 0 \/ NoVoxels)) =>
        /\ pc = "built"
        /\ result = "Ok"
        /\ mosaic.sections = <<>>
        /\ iter(mosaic) = <<>>
        /\ mosaic.length = image.length
        /\ mosaic.width = image.width

\* reduce_bricks with a catalog, called on the mosaic of an image that has
\* pixels but no voxel
C13_Witness ==
    /\ nReduce > 0
    /\ catalog # <<>>
    /\ image.length > 0
    /\ image.width > 0
    /\ NoVoxels

(***************************************************************************)
(* base.rs: Base::new, fill, the supports and Base::iter.  A FilledArea is *)
(* a record brick, l, w, length, width.  fill and the operators built on   *)
(* it give a record areas, returns: returns is FALSE when the call does    *)
(* not come back, because fill divides by a brick dimension of 0 or calls  *)
(* itself without end.                                                     *)
(***************************************************************************)
FOUR_BY_TWO_PLATE == TestBrick("4x2x1", 4, 2, 1, UNIT_BRICK)
FOUR_BY_FOUR_PLATE == TestBrick("4x4x1", 4, 4, 1, UNIT_BRICK)
EIGHT_BY_EIGHT_PLATE == TestBrick("8x8x1", 8, 8, 1, UNIT_BRICK)
FIVE_BY_ONE_PLATE == TestBrick("5x1x1", 5, 1, 1, UNIT_BRICK)
SIX_BY_ONE_PLATE == TestBrick("6x1x1", 6, 1, 1, UNIT_BRICK)
ONE_BY_ONE_BY_SIX_BRICK == TestBrick("1x1x6", 1, 1, 6, UNIT_BRICK)
TWO_BY_TWO_BY_TWO_BRICK == TestBrick("2x2x2", 2, 2, 2, UNIT_BRICK)

is_even(n) == n % 2 = 0

\* n & !1
make_even(n) == n - (n % 2)

sub_at_most(n, amount) == n - Min(n, amount)

\* a stable sort, the largest length * width first
sort_by_area(bricks) ==
    LET n == Len(bricks)
        area(j) == bricks[j].length * bricks[j].width
        rank(j) == 1 + Cardinality({k \in 1..n :
                          area(k) > area(j) \/ (area(k) = area(j) /\ k < j)})
    IN [i \in 1..n |-> bricks[CHOOSE j \in 1..n : rank(j) = i]]

FilledArea(brick, l, w, length, width) ==
    [brick |-> brick, l |-> l, w |-> w, length |-> length, width |-> width]

\* results of calls that came back, one after the other
Finished(areas) == [areas |-> areas, returns |-> TRUE]
NeverReturns == [areas |-> <<>>, returns |-> FALSE]
Both(a, b) == [areas |-> a.areas \o b.areas, returns |-> a.returns /\ b.returns]
AllOf(rs) ==
    [areas |-> Flatten([i \in 1..Len(rs) |-> rs[i].areas], 1, Len(rs)),
     returns |-> \A i \in 1..Len(rs) : rs[i].returns]

\* min_index counts from 0 as in the source; bricks[index + 1] is the
\* source's bricks[index]
RECURSIVE fill(_, _, _, _, _, _)
fill(min_l, min_w, length, width, min_index, bricks) ==
    LET fitting == {i \in (min_index + 1)..Len(bricks) :
                       bricks[i].length <= length /\ bricks[i].width <= width}
        \* the area of bricks[next] and the fills below and right of it,
        \* which start at the source's index next
        Laid(next, remaining_length, remaining_width) ==
            Both(Both(Finished(<<FilledArea(bricks[next], min_l, min_w,
                                            length - remaining_length,
                                            width - remaining_width)>>),
                      IF length - remaining_length > 0 /\ remaining_width > 0
                      THEN fill(min_l, min_w + (width - remaining_width),
                                length - remaining_length, remaining_width, next, bricks)
                      ELSE Finished(<<>>)),
                 IF remaining_length > 0 /\ width > 0
                 THEN fill(min_l + (length - remaining_length), min_w, remaining_length,
                           width, next, bricks)
                 ELSE Finished(<<>>))
        Picked(next) ==
            \* `remaining_length %= brick.length()` with a length of 0 panics
            IF bricks[next].length = 0 \/ bricks[next].width = 0 THEN NeverReturns
            ELSE Laid(next, length % bricks[next].length, width % bricks[next].width)
    IN IF fitting = {}
       \* nothing is filled: with length > 0 and width > 0 fill calls itself
       \* for the same area, with the next index, and never ends
       THEN IF length > 0 /\ width > 0 THEN NeverReturns ELSE Finished(<<>>)
       ELSE Picked(CHOOSE i \in fitting : \A j \in fitting : i <= j)

\* the bricks of `bricks` with a length of 2 and those with a width of 2
filter_bricks(bricks) ==
    LET length_two(brick) ==
            IF brick.length = 2 /\ is_even(brick.width) THEN <<brick>>
            ELSE IF brick.width = 2 /\ is_even(brick.length) THEN <<rotate_90(brick)>>
            ELSE <<>>
        width_two(brick) ==
            IF brick.length = 2 /\ is_even(brick.width) THEN <<rotate_90(brick)>>
            ELSE IF brick.width = 2 /\ is_even(brick.length) THEN <<brick>>
            ELSE <<>>
    IN [length_two_bricks |->
            sort_by_area(Flatten([i \in 1..Len(bricks) |-> length_two(bricks[i])],
                                 1, Len(bricks))),
        width_two_bricks |->
            sort_by_area(Flatten([i \in 1..Len(bricks) |-> width_two(bricks[i])],
                                 1, Len(bricks)))]

\* the values of (from..=to).step_by(step), in order
StepBy(from, to, step) ==
    IF from > to THEN <<>>
    ELSE [k \in 1..((to - from) \div step + 1) |-> from + (k - 1) * step]

\* the bricks with a length or a width of 1 and their rotations
BorderBricks(bricks) ==
    sort_by_area(Flatten([i \in 1..Len(bricks) |->
                             IF bricks[i].length = 1 \/ bricks[i].width = 1
                             THEN <<bricks[i], rotate_90(bricks[i])>>
                             ELSE <<>>],
                         1, Len(bricks)))

\* the vertical and horizontal supports of FilledArea::build_supports
InnerSupports(self, filtered, mosaic_length, mosaic_width) ==
    LET is_rightmost_area == mosaic_length - self.length - self.l = 0
        is_bottommost_area == mosaic_width - self.width - self.w = 0
        brick_length == self.brick.length
        brick_width == self.brick.width
        support_width == IF is_bottommost_area THEN sub_at_most(self.width, 2)
                         ELSE self.width
        min_l == self.l + brick_length - 1
        min_w == self.w + brick_width - 1
        max_l == self.l + self.length - 1
        max_w == self.w + sub_at_most(support_width, 1)
        Vertical(l) ==
            IF ~is_rightmost_area \/ max_l - l >= 2
            THEN fill(l, self.w + 1, 2, support_width, 0, filtered.length_two_bricks)
            ELSE Finished(<<>>)
        HorizontalAt(horizontal_min_l, support_length, ws) ==
            AllOf([k \in 1..Len(ws) |->
                      fill(horizontal_min_l, ws[k], support_length, 2, 0,
                           filtered.width_two_bricks)])
        Horizontal(l) ==
            IF brick_length > 2
            THEN HorizontalAt(l - (brick_length - 2),
                              IF mosaic_length - (l - (brick_length - 2) - 1)
                                    - (brick_length - 2) = 0
                              THEN sub_at_most(brick_length - 2, 2)
                              ELSE brick_length - 2,
                              StepBy(min_w, max_w, brick_width))
            ELSE Finished(<<>>)
        Along(ls) == AllOf([k \in 1..Len(ls) |-> Both(Vertical(ls[k]), Horizontal(ls[k]))])
    IN Along(StepBy(min_l, max_l, brick_length))

\* the border supports of FilledArea::build_supports
BorderSupports(self, border_bricks, mosaic_length, mosaic_width) ==
    LET needs_left_border == self.l = 0
        needs_top_border == self.w = 0
        needs_right_border ==
            is_even(mosaic_length) /\ mosaic_length - self.length - self.l = 0
        needs_bottom_border ==
            is_even(mosaic_width) /\ mosaic_width - self.width - self.w = 0
        left == IF needs_left_border THEN 1 ELSE 0
        top == IF needs_top_border THEN 1 ELSE 0
        right == IF needs_right_border THEN 1 ELSE 0
    IN AllOf(<<IF needs_left_border
               THEN fill(self.l, self.w, 1, self.width, 0, border_bricks)
               ELSE Finished(<<>>),
               IF needs_top_border
               THEN fill(self.l + left, self.w, self.length - left, 1, 0, border_bricks)
               ELSE Finished(<<>>),
               IF needs_right_border
               THEN fill(self.l + self.length - 1, self.w + top, 1, self.width - top, 0,
                         border_bricks)
               ELSE Finished(<<>>),
               IF needs_bottom_border
               THEN fill(self.l + left, self.w + self.width - 1,
                         self.length - left - right, 1, 0, border_bricks)
               ELSE Finished(<<>>)>>)

\* FilledArea::build_supports
area_build_supports(self, bricks, mosaic_length, mosaic_width) ==
    Both(InnerSupports(self, filter_bricks(bricks), mosaic_length, mosaic_width),
         BorderSupports(self, BorderBricks(bricks), mosaic_length, mosaic_width))

\* Base::build_supports
base_build_supports(base_bricks, one_by_one, two_by_one, two_by_two, other_bricks, mosaic_length, mosaic_width) ==
    LET bricks == <<one_by_one, two_by_one, rotate_90(two_by_one), two_by_two>>
                     \o other_bricks
    IN IF mosaic_length < 3 /\ mosaic_width < 3 THEN Finished(base_bricks)
       ELSE IF mosaic_length = 3 /\ mosaic_width = 2
       THEN Finished(<<FilledArea(rotate_90(two_by_one), 0, 0, 1, 2),
                       FilledArea(two_by_two, 1, 0, 2, 2)>>)
       ELSE IF mosaic_length = 2 /\ mosaic_width = 3
       THEN Finished(<<FilledArea(two_by_one, 0, 0, 2, 1),
                       FilledArea(two_by_two, 0, 1, 2, 2)>>)
       ELSE AllOf([i \in 1..Len(base_bricks) |->
                      area_build_supports(base_bricks[i], bricks, mosaic_length,
                                          mosaic_width)])

\* the three lists Base::new sorts the bricks into
EvenByOne(two_by_one, other_bricks) ==
    sort_by_area(<<two_by_one>> \o
        Flatten([i \in 1..Len(other_bricks) |->
                    IF is_even(other_bricks[i].length) /\ other_bricks[i].width = 1
                    THEN <<other_bricks[i]>>
                    ELSE IF other_bricks[i].length = 1 /\ is_even(other_bricks[i].width)
                    THEN <<rotate_90(other_bricks[i])>>
                    ELSE <<>>],
                1, Len(other_bricks)))

\* one_by_even_bricks is not sorted
OneByEven(two_by_one, other_bricks) ==
    <<rotate_90(two_by_one)>> \o
        Flatten([i \in 1..Len(other_bricks) |->
                    IF is_even(other_bricks[i].length) /\ other_bricks[i].width = 1
                    THEN <<rotate_90(other_bricks[i])>>
                    ELSE IF other_bricks[i].length = 1 /\ is_even(other_bricks[i].width)
                    THEN <<other_bricks[i]>>
                    ELSE <<>>],
                1, Len(other_bricks))

EvenByEven(two_by_two, other_bricks) ==
    sort_by_area(<<two_by_two>> \o
        Flatten([i \in 1..Len(other_bricks) |->
                    IF (is_even(other_bricks[i].length) /\ other_bricks[i].width = 1)
                       \/ (other_bricks[i].length = 1 /\ is_even(other_bricks[i].width))
                    THEN <<>>
                    ELSE IF is_even(other_bricks[i].length)
                            /\ is_even(other_bricks[i].width)
                    THEN IF other_bricks[i].length # other_bricks[i].width
                         THEN <<other_bricks[i], rotate_90(other_bricks[i])>>
                         ELSE <<other_bricks[i]>>
                    ELSE <<>>],
                1, Len(other_bricks)))

\* the base layer of Base::new
BaseLayer(length, width, one_by_one, two_by_one, two_by_two, other_bricks) ==
    LET even_length == make_even(length)
        even_width == make_even(width)
    IN AllOf(<<fill(0, 0, even_length, even_width, 0,
                    EvenByEven(two_by_two, other_bricks)),
               IF length # even_length
               THEN fill(even_length, 0, 1, even_width, 0,
                         OneByEven(two_by_one, other_bricks))
               ELSE Finished(<<>>),
               IF width # even_width
               THEN fill(0, even_width, even_length, 1, 0,
                         EvenByOne(two_by_one, other_bricks))
               ELSE Finished(<<>>),
               IF length # even_length /\ width # even_width
               THEN Finished(<<FilledArea(one_by_one, even_length, even_width, 1, 1)>>)
               ELSE Finished(<<>>)>>)

BaseErr(status, brick) == [status |-> status, brick |-> brick]

\* Base::new once its three bricks are accepted
BaseOf(length, width, color, one_by_one, two_by_one, two_by_two, other_bricks) ==
    LET not_plates == {i \in 1..Len(other_bricks) : other_bricks[i].height # 1}
        Supported(layer, supports) ==
            IF ~layer.returns \/ ~supports.returns THEN [status |-> "Aborted"]
            ELSE [status |-> "Ok",
                  base_bricks |-> layer.areas,
                  support_bricks |-> supports.areas,
                  color |-> color,
                  length |-> length,
                  width |-> width]
        Assembled(layer) ==
            Supported(layer,
                      IF layer.returns
                      THEN base_build_supports(layer.areas, one_by_one, two_by_one,
                                               two_by_two, other_bricks, length, width)
                      ELSE NeverReturns)
    IN IF not_plates # {}
       THEN BaseErr("NotAPlate",
                    other_bricks[CHOOSE i \in not_plates : \A j \in not_plates : i <= j])
       ELSE Assembled(BaseLayer(length, width, one_by_one, two_by_one, two_by_two,
                                other_bricks))

\* Base::new
base_new(length, width, color, one_by_one, two_by_one, two_by_two, other_bricks) ==
    IF one_by_one.length # 1 \/ one_by_one.width # 1
    THEN BaseErr("NotAOneByOneBrick", one_by_one)
    ELSE IF one_by_one.height # 1 THEN BaseErr("NotAPlate", one_by_one)
    ELSE IF ~(two_by_one.length = 1 /\ two_by_one.width = 2)
            /\ (two_by_one.length # 2 /\ two_by_one.width # 1)
    THEN BaseErr("NotATwoByOneBrick", two_by_one)
    ELSE IF ~(two_by_one.length = 1 /\ two_by_one.width = 2) /\ two_by_one.height # 1
    THEN BaseErr("NotAPlate", two_by_one)
    ELSE IF two_by_two.length # 2 \/ two_by_two.width # 2
    THEN BaseErr("NotATwoByTwoBrick", two_by_two)
    ELSE IF two_by_two.height # 1 THEN BaseErr("NotAPlate", two_by_two)
    ELSE BaseOf(length, width, color, one_by_one,
                IF two_by_one.length = 1 /\ two_by_one.width = 2
                THEN rotate_90(two_by_one) ELSE two_by_one,
                two_by_two, other_bricks)

\* Base::length, Base::width and Base::height
base_length(b) == b.length
base_width(b) == b.width
base_height(b) == 2

\* Base::layer_iter: the PlacedBricks of one layer in the order it yields them
layer_iter(b, bricks, h) ==
    LET OfArea(area, ls, ws) ==
            [k \in 1..(Len(ls) * Len(ws)) |->
                [l |-> ls[(k - 1) \div Len(ws) + 1],
                 w |-> ws[((k - 1) % Len(ws)) + 1],
                 h |-> h,
                 brick |-> area.brick,
                 color |-> b.color]]
    IN Flatten([i \in 1..Len(bricks) |->
                   OfArea(bricks[i],
                          StepBy(bricks[i].l, bricks[i].l + bricks[i].length - 1,
                                 bricks[i].brick.length),
                          StepBy(bricks[i].w, bricks[i].w + bricks[i].width - 1,
                                 bricks[i].brick.width))],
               1, Len(bricks))

\* Base::iter
base_iter(b) == layer_iter(b, b.support_bricks, 0) \o layer_iter(b, b.base_bricks, 1)

(***************************************************************************)
(* The Base::new calls the model makes: footprints up to MaxBase x MaxBase *)
(* with the bricks of the test module, right and wrong ones.               *)
(***************************************************************************)
OneByOnes == {ONE_BY_ONE_PLATE, TWO_BY_ONE_PLATE, ONE_BY_ONE_BY_SIX_BRICK}
TwoByOnes == {TWO_BY_ONE_PLATE, ONE_BY_TWO_PLATE, rotate_90(TWO_BY_ONE_BY_TWO_BRICK), TWO_BY_ONE_BY_TWO_BRICK, FIVE_BY_ONE_PLATE, FOUR_BY_TWO_PLATE, TWO_BY_TWO_PLATE}
TwoByTwos == {TWO_BY_TWO_PLATE, FOUR_BY_TWO_PLATE, TWO_BY_TWO_BY_TWO_BRICK}
OtherBricks == {<<>>, <<SIX_BY_ONE_PLATE>>, <<FOUR_BY_FOUR_PLATE>>, <<EIGHT_BY_EIGHT_PLATE>>, <<FOUR_BY_TWO_PLATE, SIX_BY_ONE_PLATE>>, <<FOUR_BY_FOUR_PLATE, TWO_BY_ONE_BY_TWO_BRICK>>, <<ZERO_BY_TWO_PLATE, FOUR_BY_TWO_PLATE>>}

InitBase ==
    /\ MosaicStart(Image(0, 0, [c \in Cells(0, 0) |-> 0]), <<>>,
                   [c \in Cells(0, 0) |-> 0], "const", I32Max)
    /\ \E length \in 0..MaxBase, width \in 0..MaxBase, one_by_one \in OneByOnes,
          two_by_one \in TwoByOnes, two_by_two \in TwoByTwos,
          other_bricks \in OtherBricks :
           baseArgs = [length |-> length, width |-> width, color |-> DefaultColor,
                       one_by_one |-> one_by_one, two_by_one |-> two_by_one,
                       two_by_two |-> two_by_two, other_bricks |-> other_bricks]
    /\ base = NoBase
    /\ baseYielded = [n |-> 0, bricks |-> <<>>]
    /\ packIn = <<>>
    /\ packOut = <<>>

\* the call Base::new(length, width, color, one_by_one, two_by_one,
\* two_by_two, &other_bricks)
BaseNew ==
    /\ base.status = "none"
    /\ baseArgs # <<>>
    /\ base' = base_new(baseArgs.length, baseArgs.width, baseArgs.color,
                        baseArgs.one_by_one, baseArgs.two_by_one, baseArgs.two_by_two,
                        baseArgs.other_bricks)
    /\ UNCHANGED <<image, palette, heights, brickKind, usizeMax, pc, result, mosaic,
                   prev, catalog, exclusions, nReduce, calls, yielded, regions,
                   baseArgs, baseYielded, packVars>>

\* the caller runs base.iter() to its end
BaseIter ==
    /\ base.status = "Ok"
    /\ baseYielded' = [n |-> 1, bricks |-> base_iter(base)]
    /\ UNCHANGED <<image, palette, heights, brickKind, usizeMax, pc, result, mosaic,
                   prev, catalog, exclusions, nReduce, calls, yielded, regions,
                   baseArgs, base, packVars>>

NextBase == BaseNew \/ BaseIter

SpecBase == InitBase /\ [][NextBase]_vars

(***************************************************************************)
(* C14.  The two layers of a Base.                                         *)
(***************************************************************************)
\* the bricks base.iter() yielded at the height h that cover the cell (l, w)
CoveringAt(h, l, w) ==
    {k \in 1..Len(baseYielded.bricks) :
        /\ baseYielded.bricks[k].h = h
        /\ baseYielded.bricks[k].l <= l
        /\ l < baseYielded.bricks[k].l + baseYielded.bricks[k].brick.length
        /\ baseYielded.bricks[k].w <= w
        /\ w < baseYielded.bricks[k].w + baseYielded.bricks[k].brick.width}

\* the cells the brick p covers
CellsOf(p) ==
    (p.l..(p.l + p.brick.length - 1)) \X (p.w..(p.w + p.brick.width - 1))

\* C14: for every Base::new that succeeds the bricks iter() yields at h = 1
\* cover each cell of [0, length) x [0, width) exactly once, those at h = 0
\* cover each cell at most once and no two of them share a cell, no brick
\* extends outside the footprint, and length(), width() and height() return
\* the given length, the given width and 2.
C14_BaseLayers ==
    (base.status = "Ok" /\ baseYielded.n > 0) =>
        /\ \A k \in 1..Len(baseYielded.bricks) :
               /\ baseYielded.bricks[k].h \in {0, 1}
               /\ CellsOf(baseYielded.bricks[k])
                     \subseteq Cells(baseArgs.length, baseArgs.width)
        /\ \A c \in Cells(baseArgs.length, baseArgs.width) :
               /\ Cardinality(CoveringAt(1, c[1], c[2])) = 1
               /\ Cardinality(CoveringAt(0, c[1], c[2])) <= 1
        /\ base_length(base) = baseArgs.length
        /\ base_width(base) = baseArgs.width
        /\ base_height(base) = 2

\* the part of C14 that holds: the bricks at h = 1 cover each cell of the
\* footprint exactly once and stay inside it, and the getters return the
\* arguments and 2
C14_BaseLayerOnly ==
    (base.status = "Ok" /\ baseYielded.n > 0) =>
        /\ \A k \in 1..Len(baseYielded.bricks) :
               /\ baseYielded.bricks[k].h \in {0, 1}
               /\ baseYielded.bricks[k].h = 1 =>
                      CellsOf(baseYielded.bricks[k])
                         \subseteq Cells(baseArgs.length, baseArgs.width)
        /\ \A c \in Cells(baseArgs.length, baseArgs.width) :
               Cardinality(CoveringAt(1, c[1], c[2])) = 1
        /\ base_length(base) = baseArgs.length
        /\ base_width(base) = baseArgs.width
        /\ base_height(base) = 2

(***************************************************************************)
(* C15.  Mosaic::iter.                                                     *)
(***************************************************************************)
\* the bricks the mosaic stores: section i, chunk j, brick k
StoredBricks(m) ==
    UNION {{<<id[1], id[2], k>> : k \in 1..Len(ChunkOf(m, id).bricks)} : id \in ChunkIds(m)}

\* the PlacedBrick of a stored brick
Placed(m, b) ==
    LET section == m.sections[b[1]]
        chunk == section.chunks[b[2]]
        brick == chunk.bricks[b[3]]
    IN [l |-> section.l + chunk.l + brick.l,
        w |-> section.w + chunk.w + brick.w,
        h |-> section.h + chunk.h + brick.h,
        brick |-> brick.brick,
        color |-> chunk.color]

\* C15: iter() yields exactly one PlacedBrick for each brick the mosaic
\* stores, at section offset + chunk offset + brick offset on each axis and
\* with the chunk's color; the sequence is finite and a second iteration
\* yields the same sequence as the first.
C15_Iter ==
    yielded.n > 0 =>
        /\ Len(yielded.last) = Cardinality(StoredBricks(mosaic))
        /\ Range(yielded.last) = {Placed(mosaic, b) : b \in StoredBricks(mosaic)}
        /\ Cardinality(Range(yielded.last)) = Len(yielded.last)
        /\ yielded.last = yielded.first

\* a second iteration of a mosaic of two sections
C15_Witness ==
    /\ yielded.n = 2
    /\ Len(mosaic.sections) = 2
    /\ mosaic.sections[2].l + mosaic.sections[2].w + mosaic.sections[2].h > 0
    /\ yielded.last # <<>>

(***************************************************************************)
(* C16.  The chunks a Mosaic stores.                                       *)
(***************************************************************************)
\* the columns (l, w) of a chunk, relative to the chunk
Footprint(chunk) ==
    UNION {{<<l - 1, w>> : w \in chunk.ws_included[l]} : l \in 1..Len(chunk.ws_included)}

\* the columns the bricks of a chunk cover at the height h of the chunk
CoveredAt(chunk, h) ==
    UNION {{<<v[1], v[2]>> : v \in {x \in VoxelsOf(chunk.bricks[k]) : x[3] = h}} :
              k \in 1..Len(chunk.bricks)}

\* C16: after from_image and after every reduce_bricks call each chunk of
\* the mosaic has length, width and height above 0, one color (that of every
\* column of its footprint) and one unit brick (that of every brick it
\* holds), and the same footprint at every height of its span: at each of
\* them its bricks cover the columns of ws_included, all of them filled.
C16_ChunkInvariant ==
    pc = "built" =>
        \A i \in 1..Len(mosaic.sections) :
            \A j \in 1..Len(mosaic.sections[i].chunks) :
                LET section == mosaic.sections[i]
                    chunk == section.chunks[j]
                IN /\ chunk.length > 0 /\ chunk.width > 0 /\ chunk.height > 0
                   /\ Len(chunk.ws_included) = chunk.length
                   /\ Footprint(chunk) # {}
                   /\ \A c \in Footprint(chunk) :
                          /\ c[2] < chunk.width
                          /\ chunk.color = unwrap_or_default(nearest(palette,
                                 image.pixels[<<section.l + chunk.l + c[1],
                                                section.w + chunk.w + c[2]>>]))
                          /\ heights[<<section.l + chunk.l + c[1], section.w + chunk.w + c[2]>>]
                                 >= section.h + chunk.h + chunk.height
                   /\ \A k \in 1..Len(chunk.bricks) :
                          BrickUnitBrick(chunk.bricks[k].brick) = chunk.unit_brick
                   /\ \A h \in 0..(chunk.height - 1) : CoveredAt(chunk, h) = Footprint(chunk)

\* a reduced mosaic of one color whose columns differ in height: the region
\* was sliced into a chunk of several columns and a chunk above it
C16_Witness ==
    /\ nReduce > 0
    /\ \E id \in ChunkIds(mosaic) : Cardinality(Footprint(ChunkOf(mosaic, id))) > 1
    /\ \E id \in ChunkIds(mosaic) : ChunkOf(mosaic, id).h > 0
    /\ \E a, b \in DOMAIN heights : heights[a] # heights[b]
    /\ \A a, b \in DOMAIN heights : image.pixels[a] = image.pixels[b]

(***************************************************************************)
(* C17.  Neighbours of one color and one unit brick share a chunk.         *)
(***************************************************************************)
\* the voxels of chunk j of section i, in the coordinates of the image
GlobalVoxels(m, id) ==
    {<<m.sections[id[1]].l + ChunkOf(m, id).l + v[1],
       m.sections[id[1]].w + ChunkOf(m, id).w + v[2],
       m.sections[id[1]].h + ChunkOf(m, id).h + v[3]>> : v \in ChunkVoxels(ChunkOf(m, id))}

\* the chunks that hold the voxel v
ChunksAt(m, v) == {id \in ChunkIds(m) : v \in GlobalVoxels(m, id)}

QuantizedAt(c) == unwrap_or_default(nearest(palette, image.pixels[c]))

\* v and u are filled voxels side by side (u one step further in l or in w)
\* in one section, of one color and one unit brick
SameKindNeighbours(v, u) ==
    /\ u \in FilledVoxels
    /\ v[1] \div U8Max = u[1] \div U8Max
    /\ v[2] \div U8Max = u[2] \div U8Max
    /\ QuantizedAt(<<v[1], v[2]>>) = QuantizedAt(<<u[1], u[2]>>)
    /\ brick_fn(brickKind, v[1], v[2], v[3], QuantizedAt(<<v[1], v[2]>>))
          = brick_fn(brickKind, u[1], u[2], u[3], QuantizedAt(<<u[1], u[2]>>))

\* the columns of the image that a path of side-by-side columns of the
\* color of S joins to S
RECURSIVE Grow(_)
Grow(S) ==
    LET next == S \cup {c \in Cells(image.length, image.width) :
                           \E d \in S :
                               /\ QuantizedAt(c) = QuantizedAt(d)
                               /\ (c[1] - d[1]) * (c[1] - d[1])
                                     + (c[2] - d[2]) * (c[2] - d[2]) = 1}
    IN IF next = S THEN S ELSE Grow(next)

\* the maximal 4-connected regions of one color
Regions == {Grow({c}) : c \in Cells(image.length, image.width)}

UniformHeight == \E height \in 1..U8Max : \A c \in DOMAIN heights : heights[c] = height

\* C17: with a brick_fn that does not look at its color argument, two filled
\* voxels side by side at one height in one section, of the same color and
\* the same unit brick, are in the same chunk (and every such voxel is in
\* one chunk only); with one height for all columns and one unit brick an
\* image smaller than a section has one chunk for each maximal 4-connected
\* region of one color, the columns of that region its footprint.
C17_NeighboursShareChunk ==
    (pc = "built" /\ brickKind # "byColor") =>
        /\ \A v \in FilledVoxels :
               /\ Cardinality(ChunksAt(mosaic, v)) = 1
               /\ \A u \in {<<v[1] + 1, v[2], v[3]>>, <<v[1], v[2] + 1, v[3]>>} :
                      SameKindNeighbours(v, u) => ChunksAt(mosaic, u) = ChunksAt(mosaic, v)
        /\ (brickKind = "const" /\ UniformHeight
               /\ image.length < U8Max /\ image.width < U8Max) =>
               /\ Cardinality(ChunkIds(mosaic)) = Cardinality(Regions)
               /\ {{<<v[1], v[2]>> : v \in GlobalVoxels(mosaic, id)} : id \in ChunkIds(mosaic)}
                     = Regions

\* the mosaic of the 4 x 5 test image with height 1 everywhere: 5 chunks
C17_Witness ==
    /\ pc = "built"
    /\ image.length = 4
    /\ image.width = 5
    /\ \A c \in DOMAIN heights : heights[c] = 1
    /\ Len(mosaic.sections) = 1
    /\ Len(mosaic.sections[1].chunks) = 5

(***************************************************************************)
(* C18.  How slice_chunk cuts a flood-fill region into chunks.             *)
(***************************************************************************)
\* the heights at which a region has voxels
LevelsOf(r) == {c[3] : c \in r.coords}

\* the slices of a region that span the height h
SlicesAt(r, h) ==
    {k \in 1..Len(r.slices) : r.slices[k].h <= h /\ h < r.slices[k].h + r.slices[k].height}

\* the columns of a slice in the coordinates of the region
ColumnsOf(chunk) == {<<c[1] + chunk.l, c[2] + chunk.w>> : c \in Footprint(chunk)}

\* the slices of a region are stacked without gaps from its lowest height
\* up to its highest
StackedFromBottom(r) ==
    /\ r.slices # <<>>
    /\ r.slices[1].h = r.min_h
    /\ \A h \in LevelsOf(r) : r.min_h <= h
    /\ \A k \in 1..(Len(r.slices) - 1) :
           r.slices[k + 1].h = r.slices[k].h + r.slices[k].height
    /\ LevelsOf(r) = r.min_h..(r.slices[Len(r.slices)].h
                                  + r.slices[Len(r.slices)].height - 1)

\* C18: within one flood-fill region the voxels at the heights h - 1 and h
\* are in the same chunk if and only if the region has the same set of
\* columns at both heights; the chunks of a region are stacked without
\* gaps from its lowest height, each holding at every height it spans the
\* columns the region has there.
C18_SliceByFootprint ==
    \A i \in 1..Len(regions) :
        /\ StackedFromBottom(regions[i])
        /\ \A h \in LevelsOf(regions[i]) :
               /\ Cardinality(SlicesAt(regions[i], h)) = 1
               /\ \A k \in SlicesAt(regions[i], h) :
                      ColumnsOf(regions[i].slices[k]) = CoordsAt(regions[i].coords, h)
               /\ (h - 1) \in LevelsOf(regions[i]) =>
                      ((SlicesAt(regions[i], h) = SlicesAt(regions[i], h - 1))
                          <=> (CoordsAt(regions[i].coords, h)
                                  = CoordsAt(regions[i].coords, h - 1)))

\* a region with as many columns at one height as at the height below, but
\* not the same columns, cut between the two heights
C18_Witness ==
    \E i \in 1..Len(regions) :
        \E h \in LevelsOf(regions[i]) :
            /\ (h - 1) \in LevelsOf(regions[i])
            /\ Cardinality(CoordsAt(regions[i].coords, h))
                  = Cardinality(CoordsAt(regions[i].coords, h - 1))
            /\ CoordsAt(regions[i].coords, h) # CoordsAt(regions[i].coords, h - 1)
            /\ SlicesAt(regions[i], h) # SlicesAt(regions[i], h - 1)

(***************************************************************************)
(* C19.  The bounding box slice_chunk gives to the chunks of a region.     *)
(***************************************************************************)
\* the columns of a region, at any height
ColumnsOfRegion(r) == {<<c[1], c[2]>> : c \in r.coords}

\* l, w, length and width are the smallest box around the columns cols
TightBox(chunk, cols) ==
    /\ \A c \in cols : /\ chunk.l <= c[1] /\ c[1] < chunk.l + chunk.length
                       /\ chunk.w <= c[2] /\ c[2] < chunk.w + chunk.width
    /\ \E c \in cols : c[1] = chunk.l
    /\ \E c \in cols : c[1] = chunk.l + chunk.length - 1
    /\ \E c \in cols : c[2] = chunk.w
    /\ \E c \in cols : c[2] = chunk.w + chunk.width - 1

\* C19 as stated: each chunk cut from a region has the tight bounding box
\* of its own columns, so the first and the last row of its ws_included
\* are not empty and it has a column at w = 0 and one at w = width - 1.
C19_OwnBox ==
    \A i \in 1..Len(regions) :
        \A k \in 1..Len(regions[i].slices) :
            /\ TightBox(regions[i].slices[k], ColumnsOf(regions[i].slices[k]))
            /\ regions[i].slices[k].ws_included[1] # {}
            /\ regions[i].slices[k].ws_included[Len(regions[i].slices[k].ws_included)] # {}
            /\ \E c \in Footprint(regions[i].slices[k]) : c[2] = 0
            /\ \E c \in Footprint(regions[i].slices[k]) :
                   c[2] = regions[i].slices[k].width - 1

\* C19, amended: every chunk cut from a region has the tight bounding box
\* of the whole region (of its columns at all heights); ws_included has one
\* row for each l of that box, and the chunk's own columns lie inside it.
C19_RegionBox ==
    \A i \in 1..Len(regions) :
        \A k \in 1..Len(regions[i].slices) :
            /\ TightBox(regions[i].slices[k], ColumnsOfRegion(regions[i]))
            /\ Len(regions[i].slices[k].ws_included) = regions[i].slices[k].length
            /\ ColumnsOf(regions[i].slices[k]) \subseteq ColumnsOfRegion(regions[i])
            /\ \A c \in Footprint(regions[i].slices[k]) :
                   c[2] < regions[i].slices[k].width

\* a region cut into two chunks, one of them with an empty first or last
\* row of ws_included
C19_Witness ==
    \E i \in 1..Len(regions) :
        /\ Len(regions[i].slices) > 1
        /\ \E k \in 1..Len(regions[i].slices) :
               \/ regions[i].slices[k].ws_included[1] = {}
               \/ regions[i].slices[k].ws_included[regions[i].slices[k].length] = {}

(***************************************************************************)
(* C20.  The heights of the bricks of a reduced chunk.                     *)
(***************************************************************************)
\* the heights of the chunk a placed brick spans
SpanOf(p) == p.h..(p.h + BrickHeight(p.brick) - 1)

\* the bricks of a chunk lie in layers: two bricks span the same heights or
\* disjoint ones, and no layer is taller than a layer below it
Layered(chunk) ==
    \A a, b \in 1..Len(chunk.bricks) :
        /\ \/ SpanOf(chunk.bricks[a]) = SpanOf(chunk.bricks[b])
           \/ SpanOf(chunk.bricks[a]) \cap SpanOf(chunk.bricks[b]) = {}
        /\ chunk.bricks[a].h < chunk.bricks[b].h =>
               BrickHeight(chunk.bricks[a].brick) >= BrickHeight(chunk.bricks[b].brick)

\* C20 as stated: in every reduced chunk the bricks are arranged in layers
\* of one height each, every brick starting at the base of its layer with
\* the height of the layer, the taller layers first.
C20_Layers ==
    nReduce > 0 => \A id \in ChunkIds(mosaic) : Layered(ChunkOf(mosaic, id))

\* C20, amended: in every reduced chunk every brick lies within the height
\* span of the chunk, no two bricks share a voxel, and at every height of
\* the span the bricks that cross it cover the footprint; bricks that start
\* at one base need not have one height.
C20_PackedInSpan ==
    nReduce > 0 =>
        \A id \in ChunkIds(mosaic) :
            /\ \A k \in 1..Len(ChunkOf(mosaic, id).bricks) :
                   /\ BrickHeight(ChunkOf(mosaic, id).bricks[k].brick) >= 1
                   /\ ChunkOf(mosaic, id).bricks[k].h
                         + BrickHeight(ChunkOf(mosaic, id).bricks[k].brick)
                         <= ChunkOf(mosaic, id).height
            /\ \A a, b \in 1..Len(ChunkOf(mosaic, id).bricks) :
                   a # b => VoxelsOf(ChunkOf(mosaic, id).bricks[a])
                               \cap VoxelsOf(ChunkOf(mosaic, id).bricks[b]) = {}
            /\ \A h \in 0..(ChunkOf(mosaic, id).height - 1) :
                   CoveredAt(ChunkOf(mosaic, id), h) = Footprint(ChunkOf(mosaic, id))

\* a reduced chunk with a brick two high and a brick one high on one base
C20_Witness ==
    /\ nReduce > 0
    /\ \E id \in ChunkIds(mosaic) :
           \E a, b \in 1..Len(ChunkOf(mosaic, id).bricks) :
               /\ ChunkOf(mosaic, id).bricks[a].h = ChunkOf(mosaic, id).bricks[b].h
               /\ BrickHeight(ChunkOf(mosaic, id).bricks[a].brick) = 2
               /\ BrickHeight(ChunkOf(mosaic, id).bricks[b].brick) = 1

(***************************************************************************)
(* C21.  The seed and the brick Chunk::reduce_bricks places at it.         *)
(***************************************************************************)
\* the candidates of a chunk in the order the caller listed them: every
\* catalog brick before its rotation, the Unit brick last
Candidates(chunk) ==
    SelectSeq(Append(Partition(catalog, chunk.unit_brick), Unit(chunk.unit_brick)),
              LAMBDA b : NotExcluded(b, chunk.color, exclusions))

\* the voxels the first k - 1 bricks of the chunk leave uncovered
UncoveredBefore(chunk, k) ==
    ChunkVoxels(chunk) \ UNION {VoxelsOf(chunk.bricks[i]) : i \in 1..(k - 1)}

\* v comes before u: smaller h, then smaller l, then smaller w
ScanBefore(v, u) ==
    \/ v[3] < u[3]
    \/ v[3] = u[3] /\ v[1] < u[1]
    \/ v[3] = u[3] /\ v[1] = u[1] /\ v[2] <= u[2]

\* the candidates that lie in the uncovered voxels when placed at p's origin
FittingAt(cands, p, uncovered) ==
    {i \in 1..Len(cands) :
        VoxelsOf([l |-> p.l, w |-> p.w, h |-> p.h, brick |-> cands[i]]) \subseteq uncovered}

\* the first of the fitting candidates with the largest volume
BestOf(cands, fitting) ==
    CHOOSE i \in fitting :
        \A j \in fitting :
            volume(cands[j]) < volume(cands[i])
            \/ (volume(cands[j]) = volume(cands[i]) /\ i <= j)

\* the brick p is at the first uncovered voxel and is the best candidate there
PlacedGreedily(cands, p, uncovered) ==
    /\ <<p.l, p.w, p.h>> \in uncovered
    /\ \A u \in uncovered : ScanBefore(<<p.l, p.w, p.h>>, u)
    /\ FittingAt(cands, p, uncovered) # {}
    /\ p.brick = cands[BestOf(cands, FittingAt(cands, p, uncovered))]

\* C21: in every chunk Chunk::reduce_bricks packed, each brick was placed at
\* the uncovered voxel with the smallest h, then l, then w, and is the
\* fitting candidate of the largest volume, the one listed first among those
\* of equal volume (catalog order, a shape before its rotation, Unit last);
\* no voxel is left uncovered.
C21_SeedAndLargest ==
    nReduce > 0 =>
        \A id \in ChunkIds(mosaic) :
            ChunkOf(mosaic, id).unit_brick \in TypeKeys(catalog) =>
                /\ \A k \in 1..Len(ChunkOf(mosaic, id).bricks) :
                       PlacedGreedily(Candidates(ChunkOf(mosaic, id)),
                                      ChunkOf(mosaic, id).bricks[k],
                                      UncoveredBefore(ChunkOf(mosaic, id), k))
                /\ UncoveredBefore(ChunkOf(mosaic, id),
                                   Len(ChunkOf(mosaic, id).bricks) + 1) = {}

\* two catalog shapes of the same volume that are not rotations of one
\* another fit at a seed
TieAt(cands, p, uncovered) ==
    \E i, j \in FittingAt(cands, p, uncovered) :
        /\ i < j
        /\ cands[i].kind = "NonUnit" /\ cands[j].kind = "NonUnit"
        /\ cands[i].b.id # cands[j].b.id
        /\ volume(cands[i]) = volume(cands[j])
        /\ volume(cands[i]) = volume(p.brick)

C21_Witness ==
    /\ nReduce > 0
    /\ \E id \in ChunkIds(mosaic) :
           /\ ChunkOf(mosaic, id).unit_brick \in TypeKeys(catalog)
           /\ \E k \in 1..Len(ChunkOf(mosaic, id).bricks) :
                  TieAt(Candidates(ChunkOf(mosaic, id)), ChunkOf(mosaic, id).bricks[k],
                        UncoveredBefore(ChunkOf(mosaic, id), k))
           /\ \E k \in 1..Len(ChunkOf(mosaic, id).bricks) :
                  ChunkOf(mosaic, id).bricks[k].h > 0

(***************************************************************************)
(* C22.  The order in which the candidates are tried.                      *)
(***************************************************************************)
\* the area of a brick's footprint
area(brick) == BrickLength(brick) * BrickWidth(brick)

\* the list is in descending order of f
Descending(seq, f(_)) == \A i, j \in 1..Len(seq) : i < j => f(seq[i]) >= f(seq[j])

\* no candidate that fits at p's origin has more of f than the brick placed
LargestAt(cands, p, uncovered, f(_)) ==
    \A j \in FittingAt(cands, p, uncovered) : f(cands[j]) <= f(p.brick)

\* as LargestAt, among the fitting candidates as tall as the brick placed
LargestOfHeightAt(cands, p, uncovered, f(_)) ==
    \A j \in FittingAt(cands, p, uncovered) :
        BrickHeight(cands[j]) = BrickHeight(p.brick) => f(cands[j]) <= f(p.brick)

\* C22 as stated: the candidates of a packed chunk are tried in descending
\* order of footprint area, and the brick placed at a seed has the largest
\* footprint area among the candidates that fit there.
C22_LargestArea ==
    nReduce > 0 =>
        \A id \in ChunkIds(mosaic) :
            ChunkOf(mosaic, id).unit_brick \in TypeKeys(catalog) =>
                /\ Descending(BricksByHeight(catalog, exclusions,
                                             ChunkOf(mosaic, id).unit_brick,
                                             ChunkOf(mosaic, id).color), area)
                /\ \A k \in 1..Len(ChunkOf(mosaic, id).bricks) :
                       LargestAt(Candidates(ChunkOf(mosaic, id)),
                                 ChunkOf(mosaic, id).bricks[k],
                                 UncoveredBefore(ChunkOf(mosaic, id), k), area)

\* C22, amended: the candidates of a packed chunk are tried in descending
\* order of volume, and the brick placed at a seed has the largest volume
\* among the candidates that fit there; it has the largest footprint area
\* among the fitting candidates of its own height.
C22_LargestVolume ==
    nReduce > 0 =>
        \A id \in ChunkIds(mosaic) :
            ChunkOf(mosaic, id).unit_brick \in TypeKeys(catalog) =>
                /\ Descending(BricksByHeight(catalog, exclusions,
                                             ChunkOf(mosaic, id).unit_brick,
                                             ChunkOf(mosaic, id).color), volume)
                /\ \A k \in 1..Len(ChunkOf(mosaic, id).bricks) :
                       /\ LargestAt(Candidates(ChunkOf(mosaic, id)),
                                    ChunkOf(mosaic, id).bricks[k],
                                    UncoveredBefore(ChunkOf(mosaic, id), k), volume)
                       /\ LargestOfHeightAt(Candidates(ChunkOf(mosaic, id)),
                                            ChunkOf(mosaic, id).bricks[k],
                                            UncoveredBefore(ChunkOf(mosaic, id), k), area)

\* a brick was placed where a candidate of a larger footprint but a smaller
\* volume fits as well
C22_Witness ==
    /\ nReduce > 0
    /\ \E id \in ChunkIds(mosaic) :
           /\ ChunkOf(mosaic, id).unit_brick \in TypeKeys(catalog)
           /\ \E k \in 1..Len(ChunkOf(mosaic, id).bricks) :
                  \E j \in FittingAt(Candidates(ChunkOf(mosaic, id)),
                                     ChunkOf(mosaic, id).bricks[k],
                                     UncoveredBefore(ChunkOf(mosaic, id), k)) :
                      /\ area(Candidates(ChunkOf(mosaic, id))[j])
                             > area(ChunkOf(mosaic, id).bricks[k].brick)
                      /\ volume(Candidates(ChunkOf(mosaic, id))[j])
                             < volume(ChunkOf(mosaic, id).bricks[k].brick)

(***************************************************************************)
(* C23.  Chunk::reduce_bricks comes to an end.                             *)
(***************************************************************************)
\* ws_included_by_h when the voxels of the set uncovered are the empty ones
WsOf(chunk, uncovered) ==
    [h \in 1..chunk.height |->
        [l \in 1..Len(chunk.ws_included) |->
            {w \in chunk.ws_included[l] : <<l - 1, w, h - 1>> \in uncovered}]]

\* the packer ran on the chunk to the end, no pass of its while loop leaving
\* the columns as they were, and emptied every row
PackedToTheEnd(rs) ==
    /\ ~rs.stuck
    /\ \A h \in 1..Len(rs.ws_included_by_h) :
           \A l \in 1..Len(rs.ws_included_by_h[h]) : rs.ws_included_by_h[h][l] = {}

\* the Unit brick is a candidate and fits at the seed of every brick of the
\* packed chunk
UnitFallback(chunk, sizes) ==
    /\ \E i \in 1..Len(sizes) : sizes[i] = Unit(chunk.unit_brick)
    /\ \A k \in 1..Len(chunk.bricks) :
           fits(chunk.bricks[k].l, chunk.bricks[k].w, chunk.bricks[k].h, 1, 1, 1,
                WsOf(chunk, UncoveredBefore(chunk, k)))

\* C23: for every chunk the last reduce_bricks call packed, the candidate
\* list held the Unit brick whatever the exclusions, the Unit brick fitted
\* at every seed, every pass of the while loop removed a cell, and the
\* packing ended with no cell left.
C23_Terminates ==
    nReduce > 0 =>
        \A id \in ChunkIds(prev) :
            ChunkOf(prev, id).unit_brick \in TypeKeys(catalog) =>
                /\ UnitFallback(ChunkOf(mosaic, id),
                                BricksByHeight(catalog, exclusions,
                                               ChunkOf(prev, id).unit_brick,
                                               ChunkOf(prev, id).color))
                /\ PackedToTheEnd(Pack(ChunkOf(prev, id),
                                       BricksByHeight(catalog, exclusions,
                                                      ChunkOf(prev, id).unit_brick,
                                                      ChunkOf(prev, id).color)))

\* a chunk of several voxels was packed with every catalog shape excluded
\* for its color, so that the Unit brick was the only candidate
C23_Witness ==
    /\ nReduce > 0
    /\ \E id \in ChunkIds(prev) :
           /\ ChunkOf(prev, id).unit_brick \in TypeKeys(catalog)
           /\ Len(Partition(catalog, ChunkOf(prev, id).unit_brick)) > 0
           /\ BricksByHeight(catalog, exclusions, ChunkOf(prev, id).unit_brick,
                             ChunkOf(prev, id).color)
                  = <<Unit(ChunkOf(prev, id).unit_brick)>>
           /\ Len(ChunkOf(mosaic, id).bricks) > 1
           /\ ChunkOf(mosaic, id).height > 1

(***************************************************************************)
(* C26.  One brick for each seed.                                          *)
(***************************************************************************)
\* the candidates of sizes that pass Chunk::fits at p's origin
FitsAt(sizes, p, ws_included_by_h) ==
    {i \in 1..Len(sizes) :
        fits(p.l, p.w, p.h, BrickLength(sizes[i]), BrickWidth(sizes[i]),
             BrickHeight(sizes[i]), ws_included_by_h)}

\* p is what a loop that stops at the first fitting candidate places at the
\* first empty cell, and no candidate fits there once p is placed
FirstFit(sizes, p, before, after) ==
    /\ <<p.l, p.w, p.h>> \in before
    /\ \A u \in before : ScanBefore(<<p.l, p.w, p.h>>, u)
    /\ after = before \ VoxelsOf(p)
    /\ \E i \in 1..Len(sizes) :
           /\ p.brick = sizes[i]
           /\ VoxelsOf(p) \subseteq before
           /\ \A j \in 1..(i - 1) :
                  ~(VoxelsOf([l |-> p.l, w |-> p.w, h |-> p.h, brick |-> sizes[j]])
                       \subseteq before)

\* the list of bricks is the one the first-fit loop produces for the chunk
FirstFitList(chunk, sizes) ==
    /\ \A k \in 1..Len(chunk.bricks) :
           /\ FirstFit(sizes, chunk.bricks[k], UncoveredBefore(chunk, k),
                       UncoveredBefore(chunk, k + 1))
           /\ FitsAt(sizes, chunk.bricks[k],
                     WsOf(chunk, UncoveredBefore(chunk, k + 1))) = {}
    /\ UncoveredBefore(chunk, Len(chunk.bricks) + 1) = {}

\* C26: in every chunk Chunk::reduce_bricks packed no two bricks have the
\* same origin, once a brick is placed no candidate passes the fit test at
\* its seed, and the list of bricks is the list of the loop that stops at
\* the first candidate that fits.
C26_OneBrickPerSeed ==
    nReduce > 0 =>
        \A id \in ChunkIds(mosaic) :
            ChunkOf(mosaic, id).unit_brick \in TypeKeys(catalog) =>
                /\ \A i, j \in 1..Len(ChunkOf(mosaic, id).bricks) :
                       (/\ ChunkOf(mosaic, id).bricks[i].l = ChunkOf(mosaic, id).bricks[j].l
                        /\ ChunkOf(mosaic, id).bricks[i].w = ChunkOf(mosaic, id).bricks[j].w
                        /\ ChunkOf(mosaic, id).bricks[i].h = ChunkOf(mosaic, id).bricks[j].h)
                           => i = j
                /\ FirstFitList(ChunkOf(mosaic, id),
                                BricksByHeight(catalog, exclusions,
                                               ChunkOf(mosaic, id).unit_brick,
                                               ChunkOf(mosaic, id).color))

\* a brick was placed at a seed where a later candidate fitted as well
\* before the brick was placed, and cells were left for further seeds
C26_Witness ==
    /\ nReduce > 0
    /\ \E id \in ChunkIds(mosaic) :
           /\ ChunkOf(mosaic, id).unit_brick \in TypeKeys(catalog)
           /\ \E k \in 1..Len(ChunkOf(mosaic, id).bricks) :
                  /\ ChunkOf(mosaic, id).bricks[k].brick.kind = "NonUnit"
                  /\ Cardinality(FitsAt(BricksByHeight(catalog, exclusions,
                                                       ChunkOf(mosaic, id).unit_brick,
                                                       ChunkOf(mosaic, id).color),
                                        ChunkOf(mosaic, id).bricks[k],
                                        WsOf(ChunkOf(mosaic, id),
                                             UncoveredBefore(ChunkOf(mosaic, id), k)))) > 2
                  /\ UncoveredBefore(ChunkOf(mosaic, id), k + 1) # {}

(***************************************************************************)
(* C27.  reduce_bricks and the bricks of earlier calls.                    *)
(***************************************************************************)
\* every chunk of m has a unit brick with an entry in the catalog
AllInCatalog(m, bricks) ==
    \A id \in ChunkIds(m) : ChunkOf(m, id).unit_brick \in TypeKeys(bricks)

\* the mosaic is what the last call makes of the voxel-resolution mosaic
\* and what the same call makes of the mosaic once more
SameAsFromVoxels(voxels, m, bricks, excl) ==
    /\ m = reduce_bricks(voxels, bricks, excl).mosaic
    /\ m = reduce_bricks(m, bricks, excl).mosaic

\* C27: when every chunk's unit brick has an entry in the catalog of the
\* last reduce_bricks call, the mosaic is the one the call makes of the
\* mosaic from_image built, whatever an earlier call made of it, and the
\* same call applied again leaves the mosaic as it is.
C27_HistoryIndependent ==
    (nReduce > 0 /\ AllInCatalog(mosaic, catalog)) =>
        SameAsFromVoxels(from_image(image, palette, heights, brickKind, usizeMax).mosaic,
                         mosaic, catalog, exclusions)

\* two calls were made, the first packed larger bricks into every chunk's
\* place than the voxels and the second packed the chunks differently
C27_Witness ==
    /\ nReduce = 2
    /\ AllInCatalog(mosaic, catalog)
    /\ ChunkIds(mosaic) # {}
    /\ prev # mosaic
    /\ \E id \in ChunkIds(prev) :
           \E k \in 1..Len(ChunkOf(prev, id).bricks) :
               ChunkOf(prev, id).bricks[k].brick.kind = "NonUnit"
    /\ \E id \in ChunkIds(mosaic) :
           \E k \in 1..Len(ChunkOf(mosaic, id).bricks) :
               ChunkOf(mosaic, id).bricks[k].brick.kind = "NonUnit"

(***************************************************************************)
(* Chunk::reduce_bricks on chunks as long, as wide or as tall as a section *)
(* (U8Max), with bricks of up to U8Max along one axis.                     *)
(***************************************************************************)
MaxShort == 3      \* the bricks that are not U8Max long are at most this long

\* a brick of the given dimensions for the first unit brick
LongBrick(length, width, height) ==
    TestBrick(ToString(length) \o "x" \o ToString(width) \o "x" \o ToString(height),
              length, width, height, UNIT_BRICK)

\* the lengths of the bricks along their long axis
LongSides == (2..MaxShort) \cup {U8Max}

PackBricks ==
    {LongBrick(x, 1, 1) : x \in LongSides} \cup {LongBrick(1, x, 1) : x \in LongSides}
        \cup {LongBrick(1, 1, x) : x \in LongSides} \cup {LongBrick(2, 2, 2)}

\* the lists of sizes: two bricks in descending order of volume, then Unit
PackSizes ==
    {<<NonUnit(p[1]), NonUnit(p[2]), Unit(UNIT_BRICK)>> :
        p \in {q \in PackBricks \X PackBricks :
                  q[1] # q[2] /\ volume(NonUnit(q[2])) <= volume(NonUnit(q[1]))}}

\* a chunk at the origin with the given columns
PackChunk(length, width, height, ws_included) ==
    [unit_brick |-> UNIT_BRICK, color |-> DefaultColor, l |-> 0, w |-> 0, h |-> 0,
     length |-> length, width |-> width, height |-> height,
     ws_included |-> ws_included, bricks |-> <<>>]

\* chunks that reach the last coordinate of a section along one axis: a
\* full row and the ends of a row along l and along w, a column along h,
\* and the corner of a slab two layers tall
PackChunks ==
    {PackChunk(U8Max, 1, 1, [i \in 1..U8Max |-> {0}]),
     PackChunk(U8Max, 1, 1,
               [i \in 1..U8Max |-> IF i = 1 \/ i > U8Max - MaxShort THEN {0} ELSE {}]),
     PackChunk(1, U8Max, 1, <<0..(U8Max - 1)>>),
     PackChunk(1, U8Max, 1, <<{0} \cup ((U8Max - MaxShort)..(U8Max - 1))>>),
     PackChunk(1, 1, U8Max, <<{0}>>),
     PackChunk(U8Max, U8Max, 2,
               [i \in 1..U8Max |-> IF i >= U8Max - 1 THEN {U8Max - 2, U8Max - 1} ELSE {}])}

InitPack ==
    /\ MosaicStart(Image(0, 0, [c \in Cells(0, 0) |-> 0]), <<>>,
                   [c \in Cells(0, 0) |-> 0], "const", I32Max)
    /\ baseArgs = <<>>
    /\ base = NoBase
    /\ baseYielded = [n |-> 0, bricks |-> <<>>]
    /\ \E chunk \in PackChunks, sizes \in PackSizes :
           packIn = [chunk |-> chunk, sizes |-> sizes]
    /\ packOut = <<>>

\* the call chunk.reduce_bricks(&sizes)
PackCall ==
    /\ packIn # <<>>
    /\ packOut = <<>>
    /\ LET Left(rs) ==
               packOut' = [bricks |-> rs.bricks, sums |-> rs.sums, stuck |-> rs.stuck]
       IN Left(Pack(packIn.chunk, packIn.sizes))
    /\ UNCHANGED <<image, palette, heights, brickKind, usizeMax, pc, result, mosaic,
                   prev, catalog, exclusions, nReduce, calls, yielded, regions,
                   baseVars, packIn>>

NextPack == PackCall

SpecPack == InitPack /\ [][NextPack]_vars

(***************************************************************************)
(* C30.  The u8 sums of the reducer.                                       *)
(***************************************************************************)
\* the brick lies inside the chunk
InsideChunk(chunk, p) ==
    /\ p.l + BrickLength(p.brick) <= chunk.length
    /\ p.w + BrickWidth(p.brick) <= chunk.width
    /\ p.h + BrickHeight(p.brick) <= chunk.height

\* C30: no sum l + length, w + width or h + height computed by fits,
\* fits_layer, remove_brick or remove_brick_layer during a
\* Chunk::reduce_bricks call exceeds 255, and every brick removed from the
\* empty cells lies inside the chunk.
C30_NoOverflow ==
    packOut # <<>> =>
        /\ \A x \in packOut.sums : x <= U8Max
        /\ \A k \in 1..Len(packOut.bricks) : InsideChunk(packIn.chunk, packOut.bricks[k])
        /\ ~packOut.stuck

\* the guard rejected a candidate at a seed where one of the sums would
\* have been 256 or more, and another candidate reached 255 exactly
C30_Witness ==
    /\ packOut # <<>>
    /\ U8Max \in packOut.sums
    /\ \E k \in 1..Len(packOut.bricks), i \in 1..Len(packIn.sizes) :
           overflows(packOut.bricks[k].l, packOut.bricks[k].w, packOut.bricks[k].h,
                     BrickLength(packIn.sizes[i]), BrickWidth(packIn.sizes[i]),
                     BrickHeight(packIn.sizes[i]))

(***************************************************************************)
(* C28.  The color brick_fn is called with.                                *)
(***************************************************************************)
\* every call of brick_fn passed the quantized color of the voxel's column
CalledWithOwnColor ==
    \A k \in 1..Len(calls.brick_fn) :
        calls.brick_fn[k][4] = QuantizedAt(<<calls.brick_fn[k][1], calls.brick_fn[k][2]>>)

\* the unit brick of every chunk is what brick_fn returns for each of the
\* chunk's voxels and the color of the voxel's column
RecordedForOwnColor ==
    \A id \in ChunkIds(mosaic) :
        \A v \in GlobalVoxels(mosaic, id) :
            ChunkOf(mosaic, id).unit_brick
                = brick_fn(brickKind, v[1], v[2], v[3], QuantizedAt(<<v[1], v[2]>>))

\* C28: every brick_fn call from_image made for a voxel passed the quantized
\* color of the voxel's own column, and the unit brick recorded for every
\* voxel is brick_fn(l, w, h, color(l, w)).
C28_OwnColor ==
    pc = "built" => (CalledWithOwnColor /\ RecordedForOwnColor)

\* what holds instead: a call passes the color of the voxel's column or of
\* a column next to it, and the unit brick of a chunk is what brick_fn
\* returned when it was called for the voxel
C28_ColorOfANeighbour ==
    pc = "built" =>
        \A k \in 1..Len(calls.brick_fn) :
            \E c \in Cells(image.length, image.width) :
                /\ calls.brick_fn[k][4] = QuantizedAt(c)
                /\ (c[1] - calls.brick_fn[k][1]) * (c[1] - calls.brick_fn[k][1])
                      + (c[2] - calls.brick_fn[k][2]) * (c[2] - calls.brick_fn[k][2]) <= 1

(***************************************************************************)
(* C29.  The accesses to the visited bits and the u8 subtractions of the   *)
(* flood fill.                                                             *)
(***************************************************************************)
\* C29: during from_image every (l, w, h) passed to visited_index, for the
\* start of a region, for a position taken from the queue and for a
\* neighbour tested by is_new_pos, has l < length, w < width and
\* h < max_height of the slab, so the index is inside the BoolVec, and
\* length - 1, width - 1 and height - 1 are computed with operands of at
\* least 1.
C29_NoFault ==
    \A k \in 1..Len(regions) : regions[k].faults = {}

\* a region with two columns and two layers was filled, reaching the last
\* l or the last w of its section and the topmost voxel of a column
C29_Witness ==
    /\ pc = "built"
    /\ \E k \in 1..Len(regions) :
           /\ \E v, u \in regions[k].coords : v[3] # u[3]
           /\ \E v, u \in regions[k].coords : <<v[1], v[2]>> # <<u[1], u[2]>>
           /\ \E v \in regions[k].coords :
                  /\ v[3] + regions[k].h + 1 = heights[<<v[1] + regions[k].l,
                                                         v[2] + regions[k].w>>]
                  /\ \/ v[1] + regions[k].l = image.length - 1
                     \/ v[2] + regions[k].w = image.width - 1

(***************************************************************************)
(* C25.  The bricks Base::new rejects.                                     *)
(***************************************************************************)
\* the errors the arguments of a Base::new call deserve
ErrorsOf(args) ==
    (IF args.one_by_one.length # 1 \/ args.one_by_one.width # 1
     THEN {"NotAOneByOneBrick"} ELSE {})
    \cup (IF ~(args.two_by_one.length = 2 /\ args.two_by_one.width = 1)
             /\ ~(args.two_by_one.length = 1 /\ args.two_by_one.width = 2)
          THEN {"NotATwoByOneBrick"} ELSE {})
    \cup (IF args.two_by_two.length # 2 \/ args.two_by_two.width # 2
          THEN {"NotATwoByTwoBrick"} ELSE {})
    \cup (IF \/ args.one_by_one.height # 1
             \/ args.two_by_one.height # 1
             \/ args.two_by_two.height # 1
             \/ \E i \in 1..Len(args.other_bricks) : args.other_bricks[i].height # 1
          THEN {"NotAPlate"} ELSE {})

\* C25: a Base::new call whose one_by_one is not 1x1, whose two_by_one is
\* neither 2x1 nor 1x2, whose two_by_two is not 2x2, or one of whose bricks
\* is not a plate returns one of the errors its arguments deserve; it
\* returns Ok only when they deserve none.
C25_RejectsWrongBricks ==
    base.status # "none" =>
        /\ ErrorsOf(baseArgs) # {} => base.status \in ErrorsOf(baseArgs)
        /\ base.status = "Ok" => ErrorsOf(baseArgs) = {}

\* what holds of the first and of the third brick: they are tested as
\* claimed, and an error Base::new returns is one the arguments deserve
C25_ErrorsDeserved ==
    base.status # "none" =>
        /\ "NotAOneByOneBrick" \in ErrorsOf(baseArgs) => base.status = "NotAOneByOneBrick"
        /\ base.status \in {"NotAOneByOneBrick", "NotATwoByOneBrick", "NotATwoByTwoBrick",
                            "NotAPlate"}
               => base.status \in ErrorsOf(baseArgs)
        /\ base.status = "Ok" =>
               ErrorsOf(baseArgs) \cap {"NotAOneByOneBrick", "NotATwoByTwoBrick"} = {}

(***************************************************************************)
(* C24.  The supports hold the base layer together.                        *)
(***************************************************************************)
\* the bricks base.iter() yielded at the height h
LayerAt(h) == {k \in 1..Len(baseYielded.bricks) : baseYielded.bricks[k].h = h}

\* the base-layer bricks the support s lies under
HeldBy(s) ==
    {k \in LayerAt(1) :
        CellsOf(baseYielded.bricks[k]) \cap CellsOf(baseYielded.bricks[s]) # {}}

\* the base-layer bricks joined to those of S by a chain of supports
RECURSIVE JoinedTo(_)
JoinedTo(S) ==
    LET Grown(next) == IF next = S THEN S ELSE JoinedTo(next)
    IN Grown(S \cup UNION {HeldBy(s) : s \in {x \in LayerAt(0) : HeldBy(x) \cap S # {}}})

\* C24: when base.iter() yields more than one brick at h = 1, every such
\* brick is joined to every other one by a chain of base-layer bricks in
\* which consecutive bricks lie over a common support brick (h = 0).
C24_HeldTogether ==
    (base.status = "Ok" /\ baseYielded.n > 0 /\ Cardinality(LayerAt(1)) > 1) =>
        \A k \in LayerAt(1) : JoinedTo({k}) = LayerAt(1)

\* what holds: the bases at least three long and three wide are held
\* together
C24_WideBases ==
    (/\ base.status = "Ok" /\ baseYielded.n > 0 /\ Cardinality(LayerAt(1)) > 1
     /\ baseArgs.length >= 3 /\ baseArgs.width >= 3) =>
        \A k \in LayerAt(1) : JoinedTo({k}) = LayerAt(1)

====
